---- MODULE Spec2Model ----
(***************************************************************************)
(* Model of the helpdesk ticket lifecycle engine (helpdesk/models.py,      *)
(* helpdesk/signals.py, helpdesk/views.py): ticket numbering, keyword      *)
(* auto-prioritisation, trigger rules, escalation, and the history and     *)
(* notification records written by the save signals.                       *)
(*                                                                         *)
(* Strings are sequences of one-character strings, so that formatting,     *)
(* parsing, lower-casing, substring search and string ordering are         *)
(* computed as the code computes them.                                     *)
(***************************************************************************)
EXTENDS Integers, Sequences, FiniteSets, TLC

VARIABLES
    roles,          \* CustomUser table: username -> role
    tickets,        \* Ticket table: pk -> row
    comments,       \* TicketComment table, in insertion order
    attachments,    \* TicketAttachment table, in insertion order
    history,        \* TicketHistory table, in insertion order
    notifications,  \* Notification table, in insertion order
    rules,          \* TriggerRule table: rule id -> row
    now,            \* the clock: one tick per request
    year,           \* the calendar year of the clock
    nextId,         \* the Ticket table's AUTOINCREMENT counter
    issued,         \* history variable: every ticket_number ever persisted, in order
    reqs,           \* concurrent create_ticket requests: process -> [pc, inst]
    probe,          \* calls of a model method on an in-memory instance
    last            \* the last request and its outcome: [view, user, ticket, outcome]

vars == <<roles, tickets, comments, attachments, history, notifications, rules, now, year, nextId,
          issued, reqs, probe, last>>

-----------------------------------------------------------------------------
(* Bounds of the model *)

MaxOps == 3         \* steps per behaviour of the lifecycle specification
MaxTickets == 2     \* tickets created per behaviour of the lifecycle and assignment specifications
MaxYears == 1       \* how many times the year may advance
MaxCreates == 1     \* tickets created per behaviour of the creation specification
MaxCalls == 2       \* calls per behaviour of the method specification
MaxProcs == 2       \* processes creating tickets at the same time
MaxSteps == 4       \* requests per behaviour of the update, comment and assignment specifications
MaxRequests == 4    \* requests per behaviour of the audit and access specifications

-----------------------------------------------------------------------------
(* Strings *)

NULL == "NULL"

\* The characters the model uses, in code-point order.
Alphabet ==
    << " ", ",", "-",
       "0", "1", "2", "3", "4", "5", "6", "7", "8", "9",
       "A", "B", "C", "D", "E", "F", "G", "H", "I", "J", "K", "L", "M",
       "N", "O", "P", "Q", "R", "S", "T", "U", "V", "W", "X", "Y", "Z",
       "a", "b", "c", "d", "e", "f", "g", "h", "i", "j", "k", "l", "m",
       "n", "o", "p", "q", "r", "s", "t", "u", "v", "w", "x", "y", "z" >>

Chars == {Alphabet[i] : i \in 1..Len(Alphabet)}

\* The position of each character in the order of code points.
OrdTable == [c \in Chars |-> CHOOSE i \in 1..Len(Alphabet) : Alphabet[i] = c]

Ord(c) == OrdTable[c]

IsUpper(c) == Ord(c) >= Ord("A") /\ Ord(c) <= Ord("Z")

LowerTable ==
    [c \in Chars |-> IF IsUpper(c) THEN Alphabet[Ord(c) + (Ord("a") - Ord("A"))] ELSE c]

LowerChar(c) == LowerTable[c]

\* str.lower()
Lower(s) == [i \in 1..Len(s) |-> LowerChar(s[i])]

\* Python's  kw in text
Contains(text, kw) ==
    \E i \in 0..(Len(text) - Len(kw)) : SubSeq(text, i + 1, i + Len(kw)) = kw

StartsWith(s, p) == Len(p) <= Len(s) /\ SubSeq(s, 1, Len(p)) = p

\* String order of the database's ORDER BY: code point by code point, a proper
\* prefix first.
StrLess(a, b) ==
    LET n == IF Len(a) < Len(b) THEN Len(a) ELSE Len(b)
        diff == {i \in 1..n : a[i] # b[i]}
    IN  IF diff = {} THEN Len(a) < Len(b)
        ELSE LET k == CHOOSE i \in diff : \A j \in diff : i <= j
             IN  Ord(a[k]) < Ord(b[k])

\* str.split(sep)
RECURSIVE Split(_, _)
Split(s, sep) ==
    LET idx == {i \in 1..Len(s) : s[i] = sep}
    IN  IF idx = {} THEN <<s>>
        ELSE LET k == CHOOSE i \in idx : \A j \in idx : i <= j
             IN  <<SubSeq(s, 1, k - 1)>> \o Split(SubSeq(s, k + 1, Len(s)), sep)

\* str.strip()
RECURSIVE Strip(_)
Strip(s) ==
    IF s = <<>> THEN s
    ELSE IF Head(s) = " " THEN Strip(Tail(s))
    ELSE IF s[Len(s)] = " " THEN Strip(SubSeq(s, 1, Len(s) - 1))
    ELSE s

\* ', '.join(list)
RECURSIVE Join(_)
Join(l) ==
    IF l = <<>> THEN <<>>
    ELSE IF Len(l) = 1 THEN l[1]
    ELSE l[1] \o <<",", " ">> \o Join(Tail(l))

DigitChar(d) == Alphabet[Ord("0") + d]

DigitVal(c) == Ord(c) - Ord("0")

\* str(n) for n >= 0
RECURSIVE IntToStr(_)
IntToStr(n) ==
    IF n < 10 THEN <<DigitChar(n)>>
    ELSE IntToStr(n \div 10) \o <<DigitChar(n % 10)>>

\* int(s) for a string of decimal digits
RECURSIVE ParseInt(_)
ParseInt(s) ==
    IF s = <<>> THEN 0
    ELSE 10 * ParseInt(SubSeq(s, 1, Len(s) - 1)) + DigitVal(s[Len(s)])

\* The width of the format specification 04d.
PadWidth == 4

\* format(n, "04d"): zero-padded to at least PadWidth digits, never truncated
RECURSIVE ZeroPad(_)
ZeroPad(s) == IF Len(s) >= PadWidth THEN s ELSE ZeroPad(<<"0">> \o s)

Prefix == <<"B", "R", "T", "S", "-">>

\* f"BRTS-{year}-{new_number:04d}"
FormatTicketNumber(y, n) == Prefix \o IntToStr(y) \o <<"-">> \o ZeroPad(IntToStr(n))

\* int(ticket_number.split('-')[2])
SequenceOf(number) == ParseInt(Split(number, "-")[3])

\* The year field of a ticket number, as a number.
YearOf(number) == ParseInt(Split(number, "-")[2])

-----------------------------------------------------------------------------
(* Users, categories and the choices of the model fields *)

Users == {"c1", "c2", "a1", "a2", "m1"}

USER_ROLES == {"client", "agent", "admin"}

\* The users as setup_sample_data creates them: two clients, two agents, the
\* administrator.
DefaultRoles ==
    [u \in Users |-> CASE u \in {"c1", "c2"} -> "client"
                      [] u \in {"a1", "a2"} -> "agent"
                      [] OTHER -> "admin"]

\* CustomUser.role; "none" for no user (None).
Role(u) == IF u \in DOMAIN roles THEN roles[u] ELSE "none"

is_client(u) == Role(u) = "client"

is_agent_or_admin(u) == Role(u) \in {"agent", "admin"}

Categories == {"cat1"}

STATUS_CHOICES == {"open", "in_progress", "pending", "resolved", "closed"}

PRIORITY_CHOICES == {"low", "medium", "high", "critical"}

SEVERITY_CHOICES == {"low", "medium", "high", "critical"}

\* Position on the ladder low < medium < high < critical.
Rank(p) ==
    CASE p = "low" -> 1
      [] p = "medium" -> 2
      [] p = "high" -> 3
      [] p = "critical" -> 4

\* A DateTimeField that is None; a set one is [tick |-> now, year |-> year].
NoTime == [tick |-> 0, year |-> 0]

\* A Ticket instance as Ticket(...) builds it: unsaved (pk 0), no number, the
\* field defaults of the model.
NewTicket(subject, description, category, severity, created_by) ==
    [ pk |-> 0,
      ticket_number |-> <<>>,
      subject |-> subject,
      description |-> description,
      category |-> category,
      severity |-> severity,
      priority |-> "medium",
      status |-> "open",
      created_by |-> created_by,
      assigned_to |-> NULL,
      created_at |-> NoTime,
      resolved_at |-> NoTime,
      closed_at |-> NoTime,
      is_escalated |-> FALSE,
      escalated_at |-> NoTime,
      escalated_by |-> NULL ]

-----------------------------------------------------------------------------
(* Ticket.generate_ticket_number *)

\* Ticket.objects.filter(ticket_number__startswith=f"BRTS-{year}")
\*       .order_by('-ticket_number').first(): the pk of the row whose number is
\* last in string order, or 0.
LastTicket(table, y) ==
    LET matching == {t \in DOMAIN table :
                        StartsWith(table[t].ticket_number, Prefix \o IntToStr(y))}
    IN  IF matching = {} THEN 0
        ELSE CHOOSE t \in matching :
                \A o \in matching :
                    ~StrLess(table[t].ticket_number, table[o].ticket_number)

generate_ticket_number(table, y) ==
    LET last_ticket == LastTicket(table, y)
    IN  IF last_ticket # 0
        THEN FormatTicketNumber(y, SequenceOf(table[last_ticket].ticket_number) + 1)
        ELSE FormatTicketNumber(y, 1)

-----------------------------------------------------------------------------
(* Ticket.auto_prioritize *)

critical_keywords ==
    { <<"c","r","i","t","i","c","a","l">>,
      <<"e","m","e","r","g","e","n","c","y">>,
      <<"o","u","t","a","g","e">>,
      <<"d","o","w","n">>,
      <<"b","r","e","a","c","h">>,
      <<"s","e","c","u","r","i","t","y"," ","b","r","e","a","c","h">>,
      <<"d","a","t","a"," ","l","o","s","s">> }

high_keywords ==
    { <<"u","r","g","e","n","t">>,
      <<"h","i","g","h">>,
      <<"i","m","p","o","r","t","a","n","t">>,
      <<"a","s","a","p">>,
      <<"i","m","m","e","d","i","a","t","e">>,
      <<"p","r","o","d","u","c","t","i","o","n">> }

\* f"{self.subject} {self.description}".lower()
TextOf(inst) == Lower(inst.subject \o <<" ">> \o inst.description)

\* any(keyword in text for keyword in keywords)
AnyIn(text, keywords) == \E k \in keywords : Contains(text, k)

HasCritical(inst) == LET text == TextOf(inst) IN AnyIn(text, critical_keywords)

HasHigh(inst) == LET text == TextOf(inst) IN AnyIn(text, high_keywords)

\* auto_prioritize testing the high keywords before the critical ones.
auto_prioritize_high_first(inst) ==
    IF HasHigh(inst) THEN [inst EXCEPT !.priority = "high"]
    ELSE IF HasCritical(inst) THEN [inst EXCEPT !.priority = "critical"]
    ELSE inst

auto_prioritize(inst) ==
    IF HasCritical(inst) THEN [inst EXCEPT !.priority = "critical"]
    ELSE IF HasHigh(inst) THEN [inst EXCEPT !.priority = "high"]
    ELSE inst

-----------------------------------------------------------------------------
(* Ticket.escalate *)

\* escalate whose ladder lacks the step from high to critical.
escalate_short_ladder(inst, escalated_by, t) ==
    IF ~inst.is_escalated
    THEN [inst EXCEPT
            !.is_escalated = TRUE,
            !.escalated_at = t,
            !.escalated_by = escalated_by,
            !.priority = CASE @ = "low" -> "medium"
                           [] @ = "medium" -> "high"
                           [] OTHER -> @]
    ELSE inst

\* escalate without its guard "if not self.is_escalated".
escalate_unguarded(inst, escalated_by, t) ==
    [inst EXCEPT
        !.is_escalated = TRUE,
        !.escalated_at = t,
        !.escalated_by = escalated_by,
        !.priority = CASE @ = "low" -> "medium"
                       [] @ = "medium" -> "high"
                       [] @ = "high" -> "critical"
                       [] OTHER -> @]

escalate(inst, escalated_by, t) ==
    IF ~inst.is_escalated
    THEN [inst EXCEPT
            !.is_escalated = TRUE,
            !.escalated_at = t,
            !.escalated_by = escalated_by,
            !.priority = CASE @ = "low" -> "medium"
                           [] @ = "medium" -> "high"
                           [] @ = "high" -> "critical"
                           [] OTHER -> @]
    ELSE inst

-----------------------------------------------------------------------------
(* TriggerRule.get_keyword_list and Ticket.check_trigger_rules *)

NonEmpty(s) == s # <<>>

\* [keyword.strip().lower() for keyword in self.keywords.split(',') if keyword.strip()]
get_keyword_list(rule) ==
    LET parts == Split(rule.keywords, ",")
        kept == SelectSeq([i \in 1..Len(parts) |-> Strip(parts[i])], NonEmpty)
    IN  [i \in 1..Len(kept) |-> Lower(kept[i])]

\* The match restricted to tickets of the rule's category.
RuleMatches_scoped(rule, inst) ==
    LET keywords == get_keyword_list(rule)
        text == TextOf(inst)
    IN  /\ AnyIn(text, {keywords[i] : i \in 1..Len(keywords)})
        /\ rule.category = NULL \/ rule.category = inst.category

RuleMatches(rule, inst) ==
    LET keywords == get_keyword_list(rule)
        text == TextOf(inst)
    IN  AnyIn(text, {keywords[i] : i \in 1..Len(keywords)})

\* The loop body with a priority_high that leaves a critical priority alone.
ApplyRule_keep_critical(rule, inst, t) ==
    IF RuleMatches(rule, inst)
    THEN CASE rule.action = "escalate" -> escalate(inst, NULL, t)
           [] rule.action = "priority_high" ->
                IF inst.priority = "critical" THEN inst ELSE [inst EXCEPT !.priority = "high"]
           [] rule.action = "priority_critical" -> [inst EXCEPT !.priority = "critical"]
           [] OTHER -> inst
    ELSE inst

\* One iteration of the loop of check_trigger_rules.
ApplyRule(rule, inst, t) ==
    IF RuleMatches(rule, inst)
    THEN CASE rule.action = "escalate" -> escalate(inst, NULL, t)
           [] rule.action = "priority_high" -> [inst EXCEPT !.priority = "high"]
           [] rule.action = "priority_critical" -> [inst EXCEPT !.priority = "critical"]
           [] OTHER -> inst
    ELSE inst

\* The loop over TriggerRule.objects.filter(is_active=True); order is the order in
\* which the query returns the active rules (the model sets no ordering).
RECURSIVE check_trigger_rules(_, _, _, _)
check_trigger_rules(inst, table, order, t) ==
    IF order = <<>> THEN inst
    ELSE check_trigger_rules(ApplyRule(table[Head(order)], inst, t), table, Tail(order), t)

\* The query without its filter is_active=True.
ActiveRules_unfiltered(table) == DOMAIN table

\* TriggerRule.objects.filter(is_active=True)
ActiveRules(table) == {r \in DOMAIN table : table[r].is_active}

\* The orders in which a query without ordering may return the rows of set S.
RECURSIVE Orders(_)
Orders(S) ==
    IF S = {} THEN {<<>>}
    ELSE UNION {{<<x>> \o o : o \in Orders(S \ {x})} : x \in S}

-----------------------------------------------------------------------------
(* Ticket.save, before the row is written *)

\* The stamps without the tests "not self.resolved_at", "not self.closed_at".
StampStatus_restamp(b, t) ==
    IF b.status = "resolved" THEN [b EXCEPT !.resolved_at = t]
    ELSE IF b.status = "closed" THEN [b EXCEPT !.closed_at = t]
    ELSE b

\* The resolved/closed stamps of Ticket.save.
StampStatus(b, t) ==
    IF b.status = "resolved" /\ b.resolved_at = NoTime
    THEN [b EXCEPT !.resolved_at = t]
    ELSE IF b.status = "closed" /\ b.closed_at = NoTime
    THEN [b EXCEPT !.closed_at = t]
    ELSE b

\* Ticket.save generating a number on every save.
save_prepare_renumber(inst, table, ruletable, order, t) ==
    LET a == [inst EXCEPT !.ticket_number = generate_ticket_number(table, t.year)]
        b == IF a.pk = 0
             THEN check_trigger_rules(auto_prioritize(a), ruletable, order, t)
             ELSE a
    IN  StampStatus(b, t)

\* Ticket.save without the call of auto_prioritize.
save_prepare_skip_prioritize(inst, table, ruletable, order, t) ==
    LET a == IF inst.ticket_number = <<>>
             THEN [inst EXCEPT !.ticket_number = generate_ticket_number(table, t.year)]
             ELSE inst
        b == IF a.pk = 0 THEN check_trigger_rules(a, ruletable, order, t) ELSE a
    IN  StampStatus(b, t)

\* Ticket.save prioritising and applying the trigger rules on every save.
save_prepare_always_prioritize(inst, table, ruletable, order, t) ==
    LET a == IF inst.ticket_number = <<>>
             THEN [inst EXCEPT !.ticket_number = generate_ticket_number(table, t.year)]
             ELSE inst
    IN  StampStatus(check_trigger_rules(auto_prioritize(a), ruletable, order, t), t)

\* Lines 144-156 of Ticket.save on the in-memory instance: the number when there
\* is none, prioritisation and trigger rules when there is no pk, then the
\* resolved/closed stamps.
save_prepare(inst, table, ruletable, order, t) ==
    LET a == IF inst.ticket_number = <<>>
             THEN [inst EXCEPT !.ticket_number = generate_ticket_number(table, t.year)]
             ELSE inst
        b == IF a.pk = 0
             THEN check_trigger_rules(auto_prioritize(a), ruletable, order, t)
             ELSE a
    IN  StampStatus(b, t)

-----------------------------------------------------------------------------
(* The tables a request reads and writes, as one value *)

DB ==
    [ tickets |-> tickets,
      history |-> history,
      notifications |-> notifications,
      nextId |-> nextId,
      issued |-> issued ]

\* timezone.now()
Now == [tick |-> now, year |-> year]

\* TicketHistory.objects.create(...)
\* The write as an update_or_create keyed by ticket and action_type.
AddHistory_latest_only(d, ticket, action_type, actor, old_value, new_value, t) ==
    [d EXCEPT !.history =
        Append(SelectSeq(@, LAMBDA h : ~(h.ticket = ticket /\ h.action_type = action_type)),
               [ ticket |-> ticket,
                 action_type |-> action_type,
                 actor |-> actor,
                 old_value |-> old_value,
                 new_value |-> new_value,
                 timestamp |-> t ])]

AddHistory(d, ticket, action_type, actor, old_value, new_value, t) ==
    [d EXCEPT !.history =
        Append(@, [ ticket |-> ticket,
                    action_type |-> action_type,
                    actor |-> actor,
                    old_value |-> old_value,
                    new_value |-> new_value,
                    timestamp |-> t ])]

\* Notification.objects.create(...); message holds the values the code puts in
\* the text.
AddNotification(d, recipient, notification_type, ticket, message) ==
    [d EXCEPT !.notifications =
        Append(@, [ recipient |-> recipient,
                    notification_type |-> notification_type,
                    ticket |-> ticket,
                    message |-> message,
                    is_read |-> FALSE ])]

\* One order of the rows of an unordered query whose order no later read uses.
RECURSIVE SeqOf(_)
SeqOf(S) ==
    IF S = {} THEN <<>>
    ELSE LET x == CHOOSE x \in S : TRUE IN <<x>> \o SeqOf(S \ {x})

-----------------------------------------------------------------------------
(* signals.log_ticket_changes *)

\* The status branch without its comparison with the original.
StatusChange_unconditional(d, instance, original, t) ==
    LET h == AddHistory(d, instance.pk, "status_changed", NULL,
                        <<original.status>>, <<instance.status>>, t)
    IN  IF instance.created_by # NULL
        THEN AddNotification(h, instance.created_by, "status_changed",
                             instance.pk, <<original.status, instance.status>>)
        ELSE h

StatusChange(d, instance, original, t) ==
    IF instance.status # original.status
    THEN LET h == AddHistory(d, instance.pk, "status_changed", NULL,
                             <<original.status>>, <<instance.status>>, t)
         IN  IF instance.created_by # NULL
             THEN AddNotification(h, instance.created_by, "status_changed",
                                  instance.pk, <<original.status, instance.status>>)
             ELSE h
    ELSE d

\* The assignment branch tagging every record 'assigned'.
AssignmentChange_always_assigned(d, instance, original, t) ==
    IF instance.assigned_to # original.assigned_to /\ instance.assigned_to # NULL
    THEN LET old == IF original.assigned_to # NULL THEN <<original.assigned_to>> ELSE <<>>
             h == AddHistory(d, instance.pk, "assigned", NULL,
                             old, <<instance.assigned_to>>, t)
         IN  AddNotification(h, instance.assigned_to, "ticket_assigned",
                             instance.pk, <<>>)
    ELSE d

AssignmentChange(d, instance, original, t) ==
    IF instance.assigned_to # original.assigned_to /\ instance.assigned_to # NULL
    THEN LET action_type == IF original.assigned_to # NULL THEN "reassigned" ELSE "assigned"
             old == IF original.assigned_to # NULL THEN <<original.assigned_to>> ELSE <<>>
             h == AddHistory(d, instance.pk, action_type, NULL,
                             old, <<instance.assigned_to>>, t)
         IN  AddNotification(h, instance.assigned_to, "ticket_assigned",
                             instance.pk, <<>>)
    ELSE d

PriorityChange(d, instance, original, t) ==
    IF instance.priority # original.priority
    THEN AddHistory(d, instance.pk, "priority_changed", NULL,
                    <<original.priority>>, <<instance.priority>>, t)
    ELSE d

RECURSIVE NotifyEach(_, _, _, _, _)
NotifyEach(d, recipients, notification_type, ticket, message) ==
    IF recipients = <<>> THEN d
    ELSE NotifyEach(AddNotification(d, Head(recipients), notification_type, ticket, message),
                    Tail(recipients), notification_type, ticket, message)

\* User.objects.filter(role='admin')
Admins == {u \in Users : Role(u) = "admin"}

\* The escalation branch notifying agents as well as admins.
EscalationChange_notify_staff(d, instance, original, t) ==
    IF instance.is_escalated /\ ~original.is_escalated
    THEN LET h == AddHistory(d, instance.pk, "escalated", instance.escalated_by,
                             <<>>, <<instance.priority>>, t)
         IN  NotifyEach(h, SeqOf({u \in Users : is_agent_or_admin(u)}),
                        "ticket_escalated", instance.pk, <<instance.priority>>)
    ELSE d

EscalationChange(d, instance, original, t) ==
    IF instance.is_escalated /\ ~original.is_escalated
    THEN LET h == AddHistory(d, instance.pk, "escalated", instance.escalated_by,
                             <<>>, <<instance.priority>>, t)
         IN  NotifyEach(h, SeqOf(Admins), "ticket_escalated", instance.pk,
                        <<instance.priority>>)
    ELSE d

log_ticket_changes(d, instance, original, t) ==
    EscalationChange(
        PriorityChange(
            AssignmentChange(
                StatusChange(d, instance, original, t),
                instance, original, t),
            instance, original, t),
        instance, original, t)

-----------------------------------------------------------------------------
(* Saving a ticket that has a pk: Ticket.save, ticket_pre_save, the UPDATE,
   ticket_post_save with created = False *)

ALL == {"*"}

\* The row after UPDATE: every column from the instance, or only update_fields.
UpdatedRow(row, inst, update_fields) ==
    IF update_fields = ALL THEN inst
    ELSE [f \in DOMAIN row |-> IF f \in update_fields THEN inst[f] ELSE row[f]]

save_existing(d, inst, update_fields, ruletable, order, t) ==
    LET saved == save_prepare(inst, d.tickets, ruletable, order, t)
        \* ticket_pre_save: instance._original = Ticket.objects.get(pk=instance.pk)
        original == d.tickets[inst.pk]
        written == [d EXCEPT !.tickets[inst.pk] = UpdatedRow(@, saved, update_fields)]
    IN  \* ticket_post_save, created = False
        log_ticket_changes(written, saved, original, t)

\* super().save() of an instance with a pk once ticket_pre_save has read
\* original: the UPDATE of every field, then ticket_post_save.
write_existing(d, saved, original, t) ==
    log_ticket_changes([d EXCEPT !.tickets[saved.pk] = saved], saved, original, t)

-----------------------------------------------------------------------------
(* signals.check_trigger_notifications and signals.auto_assign_ticket *)

RECURSIVE check_trigger_notifications(_, _, _, _)
check_trigger_notifications(d, instance, ruletable, order) ==
    IF order = <<>> THEN d
    ELSE LET rule == ruletable[Head(order)]
             keywords == get_keyword_list(rule)
             sent == IF rule.action = "notify" /\ RuleMatches(rule, instance)
                     THEN NotifyEach(d, SeqOf(rule.notify_users), "trigger_activated",
                                     instance.pk, Join(keywords))
                     ELSE d
         IN  check_trigger_notifications(sent, instance, ruletable, Tail(order))

\* agent.assigned_tickets.filter(status__in=['open', 'in_progress']).count()
Workload(table, agent) ==
    Cardinality({k \in DOMAIN table :
                    table[k].assigned_to = agent
                    /\ table[k].status \in {"open", "in_progress"}})

\* The loop with the comparison reversed: an agent with the highest count.
RECURSIVE BestAgent_most(_, _, _, _)
BestAgent_most(table, agents, min, best) ==
    IF agents = <<>> THEN best
    ELSE LET open_tickets == Workload(table, Head(agents))
         IN  IF min < 0 \/ open_tickets > min
             THEN BestAgent_most(table, Tail(agents), open_tickets, Head(agents))
             ELSE BestAgent_most(table, Tail(agents), min, best)

\* The loop of auto_assign_ticket: the first agent, in the order of the query,
\* whose count is strictly below every earlier one. min < 0 stands for inf.
RECURSIVE BestAgent(_, _, _, _)
BestAgent(table, agents, min, best) ==
    IF agents = <<>> THEN best
    ELSE LET open_tickets == Workload(table, Head(agents))
         IN  IF min < 0 \/ open_tickets < min
             THEN BestAgent(table, Tail(agents), open_tickets, Head(agents))
             ELSE BestAgent(table, Tail(agents), min, best)

\* User.objects.filter(role='agent')
Agents == {u \in Users : Role(u) = "agent"}

\* The assignment written with a queryset update, which sends no signal.
auto_assign_ticket_silent(d, instance, agents, ruletable, t) ==
    IF instance.assigned_to = NULL /\ instance.category # NULL /\ agents # <<>>
    THEN LET best_agent == BestAgent(d.tickets, agents, -1, NULL)
         IN  IF best_agent # NULL
             THEN [d EXCEPT !.tickets[instance.pk].assigned_to = best_agent]
             ELSE d
    ELSE d

\* The assignment without the test of the category.
auto_assign_ticket_any_category(d, instance, agents, ruletable, t) ==
    IF instance.assigned_to = NULL /\ agents # <<>>
    THEN LET best_agent == BestAgent(d.tickets, agents, -1, NULL)
         IN  IF best_agent # NULL
             THEN save_existing(d, [instance EXCEPT !.assigned_to = best_agent],
                                {"assigned_to"}, ruletable, <<>>, t)
             ELSE d
    ELSE d

\* agents: the agent users in the order the query returns them.
auto_assign_ticket(d, instance, agents, ruletable, t) ==
    IF instance.assigned_to = NULL /\ instance.category # NULL /\ agents # <<>>
    THEN LET best_agent == BestAgent(d.tickets, agents, -1, NULL)
         IN  IF best_agent # NULL
             THEN save_existing(d, [instance EXCEPT !.assigned_to = best_agent],
                                {"assigned_to"}, ruletable, <<>>, t)
             ELSE d
    ELSE d

-----------------------------------------------------------------------------
(* Saving a new ticket: the INSERT and ticket_post_save with created = True *)

\* The unique constraint on ticket_number rejects the INSERT.
NumberTaken(table, inst) ==
    \E k \in DOMAIN table : table[k].ticket_number = inst.ticket_number

ticket_post_save_created(d, instance, ruletable, order, agents, t) ==
    LET logged == AddHistory(d, instance.pk, "created", instance.created_by,
                             <<>>, <<instance.status, instance.priority>>, t)
        alerted == check_trigger_notifications(logged, instance, ruletable, order)
    IN  auto_assign_ticket(alerted, instance, agents, ruletable, t)

\* The INSERT of super().save(): saved is the instance after save_prepare; the
\* row gets the next pk.
insert_row(d, saved, t) ==
    LET row == [saved EXCEPT !.pk = d.nextId, !.created_at = t]
    IN  [d EXCEPT !.tickets = (d.nextId :> row) @@ @,
                  !.nextId = @ + 1,
                  !.issued = Append(@, row.ticket_number)]

\* The INSERT, then post_save.
insert_new(d, saved, ruletable, order, agents, t) ==
    LET row == [saved EXCEPT !.pk = d.nextId, !.created_at = t]
    IN  ticket_post_save_created(insert_row(d, saved, t), row, ruletable, order, agents, t)

\* Ticket.save() of an instance without pk, as one step.
save_new(d, inst, ruletable, order, agents, t) ==
    LET saved == save_prepare(inst, d.tickets, ruletable, order, t)
    IN  IF NumberTaken(d.tickets, saved) THEN d
        ELSE insert_new(d, saved, ruletable, order, agents, t)

\* The tables after a request that left them as d.
Commit(d) ==
    \E x \in {d} :
        /\ tickets' = x.tickets
        /\ history' = x.history
        /\ notifications' = x.notifications
        /\ nextId' = x.nextId
        /\ issued' = x.issued

-----------------------------------------------------------------------------
(* Subjects, descriptions and trigger rules the requests of the model use *)

\* "Printer jam"
S_PrinterJam == <<"P","r","i","n","t","e","r"," ","j","a","m">>

\* "Server DOWN"
S_ServerDown == <<"S","e","r","v","e","r"," ","D","O","W","N">>

\* "URGENT fix"
S_UrgentFix == <<"U","R","G","E","N","T"," ","f","i","x">>

\* "Highlight"
S_Highlight == <<"H","i","g","h","l","i","g","h","t">>

\* "security"
S_Security == <<"s","e","c","u","r","i","t","y">>

\* "total outage"
D_TotalOutage == <<"t","o","t","a","l"," ","o","u","t","a","g","e">>

\* "urgent please"
D_UrgentPlease == <<"u","r","g","e","n","t"," ","p","l","e","a","s","e">>

\* "no rush"
D_NoRush == <<"n","o"," ","r","u","s","h">>

\* "Production down"
D_ProductionDown == <<"P","r","o","d","u","c","t","i","o","n"," ","d","o","w","n">>

\* "breach found"
D_BreachFound == <<"b","r","e","a","c","h"," ","f","o","u","n","d">>

\* The TriggerRule rows; the keywords are the text of the keywords field:
\* "VPN, Outage ", "printer,urgent", "outage, rush", " jam ,,security breach".
RuleRows ==
    [ r1 |-> [ name |-> "r1", keywords |-> <<"V","P","N",","," ","O","u","t","a","g","e"," ">>,
               action |-> "escalate", category |-> NULL, notify_users |-> {},
               is_active |-> TRUE ],
      r2 |-> [ name |-> "r2", keywords |-> <<"p","r","i","n","t","e","r",",","u","r","g","e","n","t">>,
               action |-> "priority_high", category |-> NULL, notify_users |-> {},
               is_active |-> TRUE ],
      r3 |-> [ name |-> "r3", keywords |-> <<"o","u","t","a","g","e",","," ","r","u","s","h">>,
               action |-> "notify", category |-> "cat1", notify_users |-> {"a1", "m1"},
               is_active |-> TRUE ],
      r4 |-> [ name |-> "r4", keywords |-> <<" ","j","a","m"," ",",",",","s","e","c","u","r","i","t","y"," ","b","r","e","a","c","h">>,
               action |-> "priority_critical", category |-> NULL, notify_users |-> {},
               is_active |-> TRUE ] ]

\* The rows of ids with exactly the rules of active switched on.
RuleTable(ids, active) ==
    [r \in ids |-> [RuleRows[r] EXCEPT !.is_active = (r \in active)]]

-----------------------------------------------------------------------------
(* Requests, each handled as one step *)

Tick == now' = now + 1 /\ year' = year

Response(view, user, ticket, outcome) ==
    last' = [view |-> view, user |-> user, ticket |-> ticket, outcome |-> outcome]

\* The save of a new instance inst by request view of user u: an INSERT the
\* unique constraint rejects raises IntegrityError and the request writes nothing.
SaveNewTicket(view, u, inst, order, agents) ==
    \E d \in {save_new(DB, inst, rules, order, agents, Now)} :
        /\ Commit(d)
        /\ IF d.nextId = nextId
           THEN Response(view, u, 0, "error")
           ELSE Response(view, u, nextId, "ok")

\* views.create_ticket: TicketForm (subject, description, category, severity),
\* created_by = request.user, ticket.save().
CreateTicket(u, subject, description, category, severity, order, agents) ==
    /\ SaveNewTicket("create_ticket", u,
                     NewTicket(subject, description, category, severity, u),
                     order, agents)
    /\ Tick
    /\ UNCHANGED <<roles, comments, attachments, rules, reqs, probe>>

\* Ticket.objects.get_or_create(...) of setup_sample_data and the admin's add
\* form: the caller also supplies priority, status and assignee.
AddTicket(u, subject, description, category, priority, status, assignee, order, agents) ==
    /\ assignee = NULL \/ is_agent_or_admin(assignee)
    /\ SaveNewTicket("add_ticket", u,
                     [NewTicket(subject, description, category, "medium", u)
                          EXCEPT !.priority = priority,
                                 !.status = status,
                                 !.assigned_to = assignee],
                     order, agents)
    /\ Tick
    /\ UNCHANGED <<roles, comments, attachments, rules, reqs, probe>>

\* views.create_ticket when the first write of ticket_post_save raises: the
\* INSERT of ticket.save() is already in the table, and no statement of the
\* view, the model or the handlers undoes it.
CreateTicketInterrupted(u, subject, description, category, severity, order) ==
    /\ LET inst == NewTicket(subject, description, category, severity, u)
           saved == save_prepare(inst, tickets, rules, order, Now)
       IN  /\ ~NumberTaken(tickets, saved)
           /\ Commit(insert_row(DB, saved, Now))
    /\ Response("create_ticket", u, nextId, "error")
    /\ Tick
    /\ UNCHANGED <<roles, comments, attachments, rules, reqs, probe>>

\* TicketUpdateForm.is_valid(): choices, and assigned_to among agents and admins.
FormValid(form) ==
    /\ form.status \in STATUS_CHOICES
    /\ form.priority \in PRIORITY_CHOICES
    /\ form.severity \in SEVERITY_CHOICES
    /\ form.assigned_to = NULL \/ is_agent_or_admin(form.assigned_to)
    /\ form.category \in Categories \cup {NULL}

\* views.update_ticket
UpdateTicket(u, k, form, order) ==
    /\ is_agent_or_admin(u)
    /\ k \in DOMAIN tickets
    /\ IF FormValid(form)
       THEN LET inst == [tickets[k] EXCEPT !.status = form.status,
                                           !.priority = form.priority,
                                           !.severity = form.severity,
                                           !.assigned_to = form.assigned_to,
                                           !.category = form.category]
                updated == save_existing(DB, inst, ALL, rules, order, Now)
            IN  /\ Commit(AddHistory(updated, k, "updated", u, <<>>, <<>>, Now))
                /\ Response("update_ticket", u, k, "ok")
       ELSE /\ Commit(DB)
            /\ Response("update_ticket", u, k, "invalid")
    /\ Tick
    /\ UNCHANGED <<roles, comments, attachments, rules, reqs, probe>>

\* views.update_ticket when a write after the UPDATE of form.save() raises:
\* at "signal" the first write of log_ticket_changes, at "view" the
\* TicketHistory.objects.create of the view. The writes made before stay.
UpdateTicketInterrupted(u, k, form, order, at) ==
    /\ is_agent_or_admin(u)
    /\ k \in DOMAIN tickets
    /\ FormValid(form)
    /\ LET inst == [tickets[k] EXCEPT !.status = form.status,
                                      !.priority = form.priority,
                                      !.severity = form.severity,
                                      !.assigned_to = form.assigned_to,
                                      !.category = form.category]
           updated == save_existing(DB, inst, ALL, rules, order, Now)
       IN  IF at = "signal"
           THEN /\ updated.history # history
                /\ Commit([DB EXCEPT !.tickets = updated.tickets])
           ELSE Commit(updated)
    /\ Response("update_ticket", u, k, "error")
    /\ Tick
    /\ UNCHANGED <<roles, comments, attachments, rules, reqs, probe>>

\* views.escalate_ticket
EscalateTicket(u, k, order) ==
    /\ is_agent_or_admin(u)
    /\ k \in DOMAIN tickets
    /\ Commit(save_existing(DB, escalate(tickets[k], u, Now), ALL, rules, order, Now))
    /\ Response("escalate_ticket", u, k, "ok")
    /\ Tick
    /\ UNCHANGED <<roles, comments, attachments, rules, reqs, probe>>

\* assign_ticket looking the user up without the filter on the role.
AssignTicket_any_user(u, k, agent_id, order) ==
    /\ is_agent_or_admin(u)
    /\ k \in DOMAIN tickets
    /\ IF agent_id # NULL /\ agent_id \notin Users
       THEN /\ Commit(DB)
            /\ Response("assign_ticket", u, k, "not_found")
       ELSE /\ Commit(save_existing(DB, [tickets[k] EXCEPT !.assigned_to = agent_id],
                                    ALL, rules, order, Now))
            /\ Response("assign_ticket", u, k, "ok")
    /\ Tick
    /\ UNCHANGED <<roles, comments, attachments, rules, reqs, probe>>

\* views.assign_ticket; agent_id NULL is the empty POST field.
AssignTicket(u, k, agent_id, order) ==
    /\ is_agent_or_admin(u)
    /\ k \in DOMAIN tickets
    /\ IF agent_id # NULL /\ ~(agent_id \in Users /\ is_agent_or_admin(agent_id))
       THEN /\ Commit(DB)
            /\ Response("assign_ticket", u, k, "not_found")
       ELSE /\ Commit(save_existing(DB, [tickets[k] EXCEPT !.assigned_to = agent_id],
                                    ALL, rules, order, Now))
            /\ Response("assign_ticket", u, k, "ok")
    /\ Tick
    /\ UNCHANGED <<roles, comments, attachments, rules, reqs, probe>>

\* The change form of TicketAdmin: is_escalated and escalated_by are editable
\* fields of the Escalation fieldset (escalated_at is read-only); save_model
\* calls obj.save().
ChangeTicket(u, k, is_escalated, escalated_by, order) ==
    /\ k \in DOMAIN tickets
    /\ Commit(save_existing(DB, [tickets[k] EXCEPT !.is_escalated = is_escalated,
                                                   !.escalated_by = escalated_by],
                            ALL, rules, order, Now))
    /\ Response("change_ticket", u, k, "ok")
    /\ Tick
    /\ UNCHANGED <<roles, comments, attachments, rules, reqs, probe>>

\* Deleting a ticket in the admin: comments, history and notifications of the ticket go
\* with it (on_delete=CASCADE).
DeleteTicket(u, k) ==
    /\ k \in DOMAIN tickets
    /\ tickets' = [j \in DOMAIN tickets \ {k} |-> tickets[j]]
    /\ history' = SelectSeq(history, LAMBDA h : h.ticket # k)
    /\ notifications' = SelectSeq(notifications, LAMBDA n : n.ticket # k)
    /\ comments' = SelectSeq(comments, LAMBDA c : c.ticket # k)
    /\ attachments' = SelectSeq(attachments, LAMBDA a : a.ticket # k)
    /\ Response("admin_delete_ticket", u, k, "ok")
    /\ Tick
    /\ UNCHANGED <<roles, rules, nextId, issued, reqs, probe>>

\* The admin's change form of a trigger rule: is_active.
\* The change form of TriggerRuleAdmin, category field.
SetRuleCategory(u, r, category) ==
    /\ r \in DOMAIN rules
    /\ rules[r].category # category
    /\ rules' = [rules EXCEPT ![r].category = category]
    /\ Response("admin_change_rule", u, 0, "ok")
    /\ Tick
    /\ UNCHANGED <<roles, tickets, comments, attachments, history, notifications, nextId, issued, reqs,
                   probe>>

SetRuleActive(u, r, b) ==
    /\ r \in DOMAIN rules
    /\ rules[r].is_active # b
    /\ rules' = [rules EXCEPT ![r].is_active = b]
    /\ Response("admin_change_rule", u, 0, "ok")
    /\ Tick
    /\ UNCHANGED <<roles, tickets, comments, attachments, history, notifications, nextId, issued, reqs,
                   probe>>

\* The length up to which comment_post_save copies a comment into new_value.
ContentLimit == 100

\* instance.content[:100] + "..." if len(instance.content) > 100 else instance.content
Truncated(content) ==
    IF Len(content) > ContentLimit
    THEN SubSeq(content, 1, ContentLimit) \o <<".", ".", ".">>
    ELSE content

\* users_to_notify without the filter for internal comments.
users_to_notify_unfiltered(ticket, comment) ==
    LET creator == IF ticket.created_by # comment.author
                   THEN <<ticket.created_by>> ELSE <<>>
    IN  IF ticket.assigned_to # NULL /\ ticket.assigned_to # comment.author
        THEN Append(creator, ticket.assigned_to)
        ELSE creator

\* The list users_to_notify of comment_post_save.
users_to_notify(ticket, comment) ==
    LET creator == IF ticket.created_by # comment.author
                   THEN <<ticket.created_by>> ELSE <<>>
        both == IF ticket.assigned_to # NULL /\ ticket.assigned_to # comment.author
                THEN Append(creator, ticket.assigned_to)
                ELSE creator
    IN  IF comment.is_internal
        THEN SelectSeq(both, LAMBDA u : ~is_client(u))
        ELSE both

\* signals.comment_post_save with created = True
comment_post_save(d, comment, t) ==
    LET ticket == d.tickets[comment.ticket]
        logged == AddHistory(d, comment.ticket, "comment_added", comment.author,
                             <<>>, Truncated(comment.content), t)
    IN  NotifyEach(logged, users_to_notify(ticket, comment), "new_comment",
                   comment.ticket, <<comment.author>>)

\* The permission test left out.
Forbidden_never(u, k) == FALSE

\* request.user.is_client and ticket.created_by != request.user, the test of
\* ticket_detail, add_comment and upload_attachment.
Forbidden(u, k) == is_client(u) /\ tickets[k].created_by # u

\* views.add_comment: get_object_or_404, then TicketCommentForm (content,
\* is_internal); a client may comment only on a ticket of their own, and never
\* internally.
AddComment(u, k, content, is_internal) ==
    /\ IF k \notin DOMAIN tickets
       THEN /\ Commit(DB)
            /\ comments' = comments
            /\ Response("add_comment", u, k, "not_found")
       ELSE IF Forbidden(u, k)
       THEN /\ Commit(DB)
            /\ comments' = comments
            /\ Response("add_comment", u, k, "forbidden")
       ELSE IF content = <<>>
       THEN /\ Commit(DB)
            /\ comments' = comments
            /\ Response("add_comment", u, k, "invalid")
       ELSE LET comment == [ ticket |-> k,
                             author |-> u,
                             content |-> content,
                             is_internal |-> IF is_client(u) THEN FALSE ELSE is_internal ]
            IN  /\ comments' = Append(comments, comment)
                /\ Commit(comment_post_save(DB, comment, Now))
                /\ Response("add_comment", u, k, "ok")
    /\ Tick
    /\ UNCHANGED <<roles, attachments, rules, reqs, probe>>

\* The POST without a file.
NoFile == [name |-> "", extension |-> ""]

\* FileExtensionValidator(allowed_extensions=[...]) of TicketAttachment.file
AllowedExtensions ==
    {"pdf", "doc", "docx", "txt", "png", "jpg", "jpeg", "gif", "xlsx", "xls", "csv",
     "log", "zip", "rar"}

ATTACHMENT_TYPES == {"general", "rca", "screenshot", "log", "report"}

\* TicketAttachmentForm.is_valid(): a file with an allowed extension and a
\* type among the choices.
AttachmentFormValid(file, attachment_type) ==
    /\ file.name # ""
    /\ file.extension \in AllowedExtensions
    /\ attachment_type \in ATTACHMENT_TYPES

\* The list users_to_notify of attachment_post_save.
upload_users_to_notify(ticket, attachment) ==
    LET creator == IF ticket.created_by # attachment.uploaded_by
                   THEN <<ticket.created_by>> ELSE <<>>
    IN  IF ticket.assigned_to # NULL /\ ticket.assigned_to # attachment.uploaded_by
        THEN Append(creator, ticket.assigned_to)
        ELSE creator

\* signals.attachment_post_save with created = True
attachment_post_save(d, attachment, t) ==
    LET ticket == d.tickets[attachment.ticket]
        logged == AddHistory(d, attachment.ticket, "file_attached", attachment.uploaded_by,
                             <<>>, <<attachment.file_name>>, t)
    IN  NotifyEach(logged, upload_users_to_notify(ticket, attachment), "ticket_updated",
                   attachment.ticket, <<attachment.file_name>>)

\* views.upload_attachment: get_object_or_404, the permission test, then
\* TicketAttachmentForm (file, attachment_type, description);
\* TicketAttachment.save copies the name of the file.
UploadAttachment(u, k, file, attachment_type) ==
    /\ IF k \notin DOMAIN tickets
       THEN /\ Commit(DB)
            /\ attachments' = attachments
            /\ Response("upload_attachment", u, k, "not_found")
       ELSE IF Forbidden(u, k)
       THEN /\ Commit(DB)
            /\ attachments' = attachments
            /\ Response("upload_attachment", u, k, "forbidden")
       ELSE IF ~AttachmentFormValid(file, attachment_type)
       THEN /\ Commit(DB)
            /\ attachments' = attachments
            /\ Response("upload_attachment", u, k, "invalid")
       ELSE LET attachment == [ ticket |-> k,
                                uploaded_by |-> u,
                                file_name |-> file.name,
                                attachment_type |-> attachment_type ]
            IN  /\ attachments' = Append(attachments, attachment)
                /\ Commit(attachment_post_save(DB, attachment, Now))
                /\ Response("upload_attachment", u, k, "ok")
    /\ Tick
    /\ UNCHANGED <<roles, comments, rules, reqs, probe>>

\* views.ticket_detail: get_object_or_404, the permission test, then the page.
TicketDetail(u, k) ==
    /\ IF k \notin DOMAIN tickets
       THEN Response("ticket_detail", u, k, "not_found")
       ELSE IF Forbidden(u, k)
       THEN Response("ticket_detail", u, k, "forbidden")
       ELSE Response("ticket_detail", u, k, "ok")
    /\ Tick
    /\ UNCHANGED <<roles, tickets, comments, attachments, history, notifications, rules,
                   nextId, issued, reqs, probe>>

\* The admin's change form of a user: role.
SetUserRole(admin, u, role) ==
    /\ u \in Users
    /\ role \in USER_ROLES
    /\ roles[u] # role
    /\ roles' = [roles EXCEPT ![u] = role]
    /\ Response("admin_change_user", admin, 0, "ok")
    /\ Tick
    /\ UNCHANGED <<tickets, comments, attachments, history, notifications, rules, nextId, issued, reqs,
                   probe>>

\* The clock passes into the next year.
NewYear ==
    /\ year' = year + 1
    /\ now' = now + 1
    /\ UNCHANGED <<roles, tickets, comments, attachments, history, notifications, rules, nextId,
                   issued, reqs, probe, last>>

-----------------------------------------------------------------------------
(* The lifecycle specification: requests one after the other *)

NoProbe == [fn |-> "none"]

NoRequest == [view |-> "none", user |-> NULL, ticket |-> 0, outcome |-> "none"]

LifeRules == {"r1", "r2"}

LifeCreators == {"c1"}

LifeSubjects == {S_PrinterJam}

LifeDescriptions == {D_NoRush, D_TotalOutage}

LifeStaff == {"a1", "m1"}

\* The update forms posted for a row: any of status, priority and assignee
\* changed.
LifeForms(row) ==
    { [status |-> s, priority |-> p, severity |-> row.severity,
       assigned_to |-> a, category |-> row.category] :
        s \in {row.status, "resolved", "open"},
        p \in {row.priority, "low"},
        a \in {row.assigned_to, "a2"} }

\* The order in which the query of a save returns the active rules.
SomeOrder == SeqOf(ActiveRules(rules))

Init ==
    /\ tickets = <<>>
    /\ roles = DefaultRoles
    /\ comments = <<>>
    /\ attachments = <<>>
    /\ history = <<>>
    /\ notifications = <<>>
    /\ rules = RuleTable(LifeRules, LifeRules)
    /\ now = 1
    /\ year = 2024
    /\ nextId = 1
    /\ issued = <<>>
    /\ reqs = <<>>
    /\ probe = NoProbe
    /\ last = NoRequest

Create ==
    /\ now <= MaxOps
    /\ nextId <= MaxTickets
    /\ \E u \in LifeCreators, subject \in LifeSubjects, description \in LifeDescriptions,
          category \in Categories \cup {NULL},
          order \in Orders(ActiveRules(rules)), agents \in Orders(Agents) :
            CreateTicket(u, subject, description, category, "medium", order, agents)

Update ==
    /\ now <= MaxOps
    /\ \E k \in DOMAIN tickets : \E form \in LifeForms(tickets[k]) :
            UpdateTicket("a1", k, form, SomeOrder)

Escalate ==
    /\ now <= MaxOps
    /\ \E u \in LifeStaff, k \in DOMAIN tickets : EscalateTicket(u, k, SomeOrder)

Assign ==
    /\ now <= MaxOps
    /\ \E k \in DOMAIN tickets, agent_id \in {NULL, "a1", "c2"} :
            AssignTicket("m1", k, agent_id, SomeOrder)

Delete ==
    /\ now <= MaxOps
    /\ \E k \in DOMAIN tickets : DeleteTicket("m1", k)

SetRule ==
    /\ now <= MaxOps
    /\ \E r \in DOMAIN rules, b \in BOOLEAN : SetRuleActive("m1", r, b)

YearPasses ==
    /\ now <= MaxOps
    /\ year < 2024 + MaxYears
    /\ NewYear

Next ==
    \/ Create
    \/ Update
    \/ Escalate
    \/ Assign
    \/ Delete
    \/ SetRule
    \/ YearPasses

Spec == Init /\ [][Next]_vars

-----------------------------------------------------------------------------
(* Properties of the lifecycle specification *)

HistoryOf(log, k, action_type) ==
    SelectSeq(log, LAMBDA h : h.ticket = k /\ h.action_type = action_type)

NotificationsOf(log, k, notification_type) ==
    SelectSeq(log, LAMBDA n : n.ticket = k /\ n.notification_type = notification_type)

EscalationFields(row) == <<row.is_escalated, row.escalated_at, row.escalated_by>>

\* C1: every persisted ticket carries the number its creating save assigned
\* (issued[pk]), whatever saves followed (update form, assign, escalate, the
\* second save of auto-assignment), and the number reads
\* BRTS-<creation year>-<sequence, at least four digits>.
C1_NumberAssignedOnce ==
    \A k \in DOMAIN tickets :
        LET number == tickets[k].ticket_number
        IN  /\ number = issued[k]
            /\ SequenceOf(number) >= 1
            /\ number = FormatTicketNumber(tickets[k].created_at.year, SequenceOf(number))

\* A ticket that was auto-assigned, escalated by a request and updated by the form.
C1_Witness ==
    \E k \in DOMAIN tickets :
        /\ tickets[k].is_escalated /\ tickets[k].escalated_by # NULL
        /\ HistoryOf(history, k, "assigned") # <<>>
        /\ HistoryOf(history, k, "updated") # <<>>
        /\ tickets[k].ticket_number = issued[k]

C8_LaterSavesKeepCallerValues ==
    [][ /\ \A k \in DOMAIN tickets :
            /\ \A form \in LifeForms(tickets[k]) :
                    UpdateTicket("a1", k, form, SomeOrder)
                        => /\ tickets'[k].priority = form.priority
                           /\ EscalationFields(tickets'[k]) = EscalationFields(tickets[k])
            /\ \A u \in LifeStaff :
                    EscalateTicket(u, k, SomeOrder)
                        => /\ tickets'[k].priority = escalate(tickets[k], u, Now).priority
                           /\ EscalationFields(tickets'[k])
                                = EscalationFields(escalate(tickets[k], u, Now))
            /\ \A agent_id \in {NULL, "a1", "c2"} :
                    AssignTicket("m1", k, agent_id, SomeOrder)
                        => /\ tickets'[k].priority = tickets[k].priority
                           /\ EscalationFields(tickets'[k]) = EscalationFields(tickets[k])
        /\ (nextId \in DOMAIN tickets' /\ nextId \notin DOMAIN tickets)
            => LET created == HistoryOf(history', nextId, "created")
               IN  /\ Len(created) = 1
                   /\ tickets'[nextId].priority = created[1].new_value[2]
                   /\ HistoryOf(history', nextId, "priority_changed") = <<>>
                   /\ HistoryOf(history', nextId, "escalated") = <<>>
      ]_vars

\* A ticket whose text has a critical keyword and matches an active rule, set
\* to low by the update form.
C8_Witness ==
    /\ last.view = "update_ticket" /\ last.outcome = "ok"
    /\ last.ticket \in DOMAIN tickets
    /\ tickets[last.ticket].priority = "low"
    /\ HasCritical(tickets[last.ticket])
    /\ \E r \in ActiveRules(rules) :
            rules[r].action # "notify" /\ RuleMatches(rules[r], tickets[last.ticket])

\* C9: an escalate request on an escalated ticket changes none of is_escalated,
\* escalated_at, escalated_by and priority, and writes no History record and
\* no Notification.
C9_SecondEscalateNoOp ==
    [][ \A k \in DOMAIN tickets : \A u \in LifeStaff :
            (tickets[k].is_escalated /\ EscalateTicket(u, k, SomeOrder))
                => /\ EscalationFields(tickets'[k]) = EscalationFields(tickets[k])
                   /\ tickets'[k].priority = tickets[k].priority
                   /\ history' = history
                   /\ notifications' = notifications
      ]_vars

\* An escalate request has been served for a ticket another user had escalated.
C9_Witness ==
    /\ last.view = "escalate_ticket"
    /\ last.ticket \in DOMAIN tickets
    /\ tickets[last.ticket].is_escalated
    /\ tickets[last.ticket].escalated_by \in LifeStaff \ {last.user}
    /\ Len(HistoryOf(history, last.ticket, "escalated")) = 1

-----------------------------------------------------------------------------
(* The method specification: auto_prioritize and escalate called on in-memory
   instances *)

MethodSubjects == {S_PrinterJam, S_ServerDown, S_UrgentFix, S_Highlight, S_Security}

MethodDescriptions ==
    {D_TotalOutage, D_UrgentPlease, D_NoRush, D_ProductionDown, D_BreachFound}

MethodActors == {NULL, "a1", "m1"}

MethodInstances ==
    { [NewTicket(subject, description, NULL, "medium", "c1") EXCEPT !.priority = p] :
        subject \in MethodSubjects, description \in MethodDescriptions,
        p \in PRIORITY_CHOICES }

InitMethod ==
    /\ tickets = <<>>
    /\ roles = DefaultRoles
    /\ comments = <<>>
    /\ attachments = <<>>
    /\ history = <<>>
    /\ notifications = <<>>
    /\ rules = RuleTable({}, {})
    /\ now = 1
    /\ year = 2024
    /\ nextId = 1
    /\ issued = <<>>
    /\ reqs = <<>>
    /\ last = NoRequest
    /\ \E fn \in {"auto_prioritize", "escalate"}, inst \in MethodInstances :
            probe = [fn |-> fn, arg |-> inst, by |-> NULL, ret |-> inst, calls |-> 0]

\* instance.auto_prioritize() on the instance the last call left.
CallAutoPrioritize ==
    /\ probe.fn = "auto_prioritize"
    /\ probe.calls < MaxCalls
    /\ probe' = [probe EXCEPT !.arg = probe.ret,
                              !.ret = auto_prioritize(probe.ret),
                              !.calls = @ + 1]
    /\ Tick
    /\ UNCHANGED <<roles, tickets, comments, attachments, history, notifications, rules, nextId, issued,
                   reqs, last>>

\* instance.escalate(escalated_by=by) on the instance the last call left.
CallEscalate ==
    /\ probe.fn = "escalate"
    /\ probe.calls < MaxCalls
    /\ \E by \in MethodActors :
            probe' = [probe EXCEPT !.arg = probe.ret,
                                   !.by = by,
                                   !.ret = escalate(probe.ret, by, Now),
                                   !.calls = @ + 1]
    /\ Tick
    /\ UNCHANGED <<roles, tickets, comments, attachments, history, notifications, rules, nextId, issued,
                   reqs, last>>

NextMethod ==
    \/ CallAutoPrioritize
    \/ CallEscalate

SpecMethod == InitMethod /\ [][NextMethod]_vars

Called(fn) == probe.fn = fn /\ probe.calls > 0

\* C5: auto_prioritize sets priority to critical when the lower-cased
\* "subject description" contains a critical keyword, else to high when it
\* contains a high keyword, else leaves it; it changes no other field.
C5_AutoPrioritize ==
    Called("auto_prioritize") =>
        LET text == Lower(probe.arg.subject \o <<" ">> \o probe.arg.description)
            expected ==
                IF \E k \in critical_keywords : Contains(text, k) THEN "critical"
                ELSE IF \E k \in high_keywords : Contains(text, k) THEN "high"
                ELSE probe.arg.priority
        IN  probe.ret = [probe.arg EXCEPT !.priority = expected]

\* A text with a critical and a high keyword, supplied as low, came out critical.
C5_Witness ==
    /\ Called("auto_prioritize")
    /\ probe.arg.priority = "low"
    /\ probe.arg.subject = S_UrgentFix
    /\ probe.arg.description = D_ProductionDown
    /\ probe.ret.priority = "critical"

\* C6: auto_prioritize never lowers the priority it is given.
C6_NeverLowers ==
    Called("auto_prioritize") => Rank(probe.ret.priority) >= Rank(probe.arg.priority)

\* C10: escalate on an instance that is not escalated sets is_escalated, records
\* the actor (NULL for the system) and moves priority exactly one step up the
\* ladder, critical staying critical.
C10_EscalateOneStep ==
    (Called("escalate") /\ ~probe.arg.is_escalated) =>
        /\ probe.ret.is_escalated
        /\ probe.ret.escalated_by = probe.by
        /\ probe.ret.escalated_at # NoTime
        /\ Rank(probe.ret.priority) =
                IF Rank(probe.arg.priority) = 4 THEN 4 ELSE Rank(probe.arg.priority) + 1

\* The system escalated a high instance to critical.
C10_Witness ==
    /\ Called("escalate")
    /\ ~probe.arg.is_escalated
    /\ probe.by = NULL
    /\ probe.arg.priority = "high"
    /\ probe.ret.priority = "critical"
    /\ probe.ret.is_escalated

-----------------------------------------------------------------------------
(* The creation specification: one creation under every configuration of the
   trigger rules *)

CreateRules == {"r1", "r2", "r3", "r4"}

CreateSubjects == {S_PrinterJam, S_UrgentFix}

CreateDescriptions == {D_TotalOutage, D_UrgentPlease, D_NoRush}

InitCreate ==
    /\ tickets = <<>>
    /\ roles = DefaultRoles
    /\ comments = <<>>
    /\ attachments = <<>>
    /\ history = <<>>
    /\ notifications = <<>>
    /\ \E active \in SUBSET CreateRules : rules = RuleTable(CreateRules, active)
    /\ now = 1
    /\ year = 2024
    /\ nextId = 1
    /\ issued = <<>>
    /\ reqs = <<>>
    /\ probe = NoProbe
    /\ last = NoRequest

CreateByView ==
    /\ nextId <= MaxCreates
    /\ \E subject \in CreateSubjects, description \in CreateDescriptions,
          category \in Categories \cup {NULL},
          order \in Orders(ActiveRules(rules)) :
            CreateTicket("c1", subject, description, category, "medium", order,
                         SeqOf(Agents))

CreateByAdmin ==
    /\ nextId <= MaxCreates
    /\ \E subject \in CreateSubjects, description \in CreateDescriptions,
          priority \in {"low", "critical"}, assignee \in {NULL, "a1"},
          order \in Orders(ActiveRules(rules)) :
            AddTicket("m1", subject, description, "cat1", priority, "open", assignee,
                      order, SeqOf(Agents))

NextCreate ==
    \/ CreateByView
    \/ CreateByAdmin

SpecCreate == InitCreate /\ [][NextCreate]_vars

Outage == <<"o","u","t","a","g","e">>

Urgent == <<"u","r","g","e","n","t">>

\* No active rule that escalates or sets a priority matches the ticket's text.
NoPriorityRuleMatches(row) ==
    ~\E r \in ActiveRules(rules) :
        rules[r].action # "notify" /\ RuleMatches(rules[r], row)

KeywordPriority(row) ==
    /\ Contains(Lower(row.description), Outage) => row.priority = "critical"
    /\ (Contains(Lower(row.description), Urgent) /\ ~HasCritical(row))
            => row.priority = "high"

-----------------------------------------------------------------------------
(* The numbering specification: creations whose two halves, the computation of
   the instance in Ticket.save and the INSERT of super().save, interleave with
   those of other requests, over tables that already hold tickets *)

Procs == 1 .. MaxProcs

SetMax(S) == CHOOSE x \in S : \A y \in S : y <= x

\* (year, sequence number) of the tickets a table may hold at the start.
SeedPool ==
    << [year |-> 2023, seq |-> 12],
       [year |-> 2024, seq |-> 1],
       [year |-> 2024, seq |-> 9999],
       [year |-> 2024, seq |-> 10000] >>

SeedRow(pk, seed) ==
    [NewTicket(S_PrinterJam, D_NoRush, NULL, "medium", "c1") EXCEPT
        !.pk = pk,
        !.ticket_number = FormatTicketNumber(seed.year, seed.seq),
        !.created_at = [tick |-> 0, year |-> seed.year]]

SeedTable(pks) == [k \in pks |-> SeedRow(k, SeedPool[k])]

Idle == [pc |-> "start", user |-> NULL, inst |-> NewTicket(<<>>, <<>>, NULL, "medium", NULL)]

InitSeeded(pool) ==
    /\ \E pks \in SUBSET pool : tickets = SeedTable(pks)
    /\ roles = DefaultRoles
    /\ comments = <<>>
    /\ attachments = <<>>
    /\ history = <<>>
    /\ notifications = <<>>
    /\ rules = RuleTable(LifeRules, LifeRules)
    /\ now = 1
    /\ year = 2024
    /\ nextId = SetMax(pool) + 1
    /\ issued = [k \in 1 .. SetMax(pool) |->
                    FormatTicketNumber(SeedPool[k].year, SeedPool[k].seq)]
    /\ reqs = [p \in Procs |-> Idle]
    /\ probe = NoProbe
    /\ last = NoRequest

InitNumber == InitSeeded(DOMAIN SeedPool)

\* views.create_ticket up to the end of Ticket.save's own lines: the instance
\* has its number, priority and rule effects, and is not written yet.
BeginCreate(p, u, subject, description, order) ==
    /\ reqs[p].pc = "start"
    /\ reqs' = [reqs EXCEPT ![p] =
                    [pc |-> "computed", user |-> u,
                     inst |-> save_prepare(NewTicket(subject, description, NULL, "medium", u),
                                           tickets, rules, order, Now)]]
    /\ Tick
    /\ UNCHANGED <<roles, tickets, comments, attachments, history, notifications, rules, nextId, issued,
                   probe, last>>

\* super().save() of that instance: the INSERT, rejected by the unique
\* constraint when the number is taken by now, and the post_save handlers.
FinishCreate(p, order, agents) ==
    /\ reqs[p].pc = "computed"
    /\ IF NumberTaken(tickets, reqs[p].inst)
       THEN /\ reqs' = [reqs EXCEPT ![p].pc = "failed"]
            /\ Response("create_ticket", reqs[p].user, 0, "error")
            /\ UNCHANGED <<tickets, history, notifications, nextId, issued>>
       ELSE /\ reqs' = [reqs EXCEPT ![p].pc = "done"]
            /\ Response("create_ticket", reqs[p].user, nextId, "ok")
            /\ Commit(insert_new(DB, reqs[p].inst, rules, order, agents, Now))
    /\ Tick
    /\ UNCHANGED <<roles, comments, attachments, rules, probe>>

Begin ==
    \E p \in Procs, description \in LifeDescriptions :
        BeginCreate(p, "c1", S_PrinterJam, description, SomeOrder)

Finish == \E p \in Procs : FinishCreate(p, SomeOrder, SeqOf(Agents))

NextNumber ==
    \/ Begin
    \/ Finish

SpecNumber == InitNumber /\ [][NextNumber]_vars

\* 1 plus the numerically highest sequence number of year y in table, 1 when
\* the year has none.
NumericNext(table, y) ==
    LET seqs == { SequenceOf(table[k].ticket_number) :
                    k \in {j \in DOMAIN table : YearOf(table[j].ticket_number) = y} }
    IN  IF seqs = {} THEN 1 ELSE SetMax(seqs) + 1

\* C2: the number a creation computes for year Y is BRTS-Y-N with N one more
\* than the numerically highest sequence number of year Y in the table, 1 when
\* there is none, also when sequence numbers have passed four digits.
C2_NextIsNumericMaxPlusOne ==
    [][ \A p \in Procs :
            (reqs[p].pc = "start" /\ reqs'[p].pc = "computed") =>
                reqs'[p].inst.ticket_number =
                    FormatTicketNumber(year, NumericNext(tickets, year)) ]_vars

-----------------------------------------------------------------------------
(* The race specification: the same creations over tables whose sequence
   numbers have four digits *)

RacePool == {1, 2}

InitRace == InitSeeded(RacePool)

SpecRace == InitRace /\ [][NextNumber]_vars

\* C4: concurrent creations of one year all complete, and no two tickets share
\* a number.
C4_ConcurrentCreatesDistinct ==
    /\ \A p \in Procs : reqs[p].pc # "failed"
    /\ \A j, k \in DOMAIN tickets :
            j # k => tickets[j].ticket_number # tickets[k].ticket_number

-----------------------------------------------------------------------------
(* Trigger rules at creation, under the creation specification *)

\* The rule store with its inactive rules removed.
WithoutInactive(table) == [r \in {x \in DOMAIN table : table[x].is_active} |-> table[r]]

\* C11: an inactive rule has no effect on a creation: the tickets (priority and
\* escalation fields included), the history and the notifications after a
\* creation by the view are those of the same creation with every inactive
\* rule absent from the store.
C11_InactiveRulesHaveNoEffect ==
    [][ (last'.view = "create_ticket" /\ nextId \in DOMAIN tickets') =>
            LET row == tickets'[nextId]
                inst == NewTicket(row.subject, row.description, row.category,
                                  row.severity, row.created_by)
                store == WithoutInactive(rules)
            IN  \E order \in Orders(DOMAIN store), agents \in Orders(Agents) :
                    \E d \in {save_new(DB, inst, store, order, agents, Now)} :
                        /\ tickets' = d.tickets
                        /\ history' = d.history
                        /\ notifications' = d.notifications
      ]_vars

\* A ticket created by the view while an inactive escalate rule and an inactive
\* notify rule match its text: it is not escalated and nobody was notified.
C11_Witness ==
    /\ last.view = "create_ticket" /\ last.outcome = "ok"
    /\ last.ticket \in DOMAIN tickets
    /\ ~rules["r1"].is_active /\ RuleMatches(rules["r1"], tickets[last.ticket])
    /\ ~rules["r3"].is_active /\ RuleMatches(rules["r3"], tickets[last.ticket])
    /\ ~tickets[last.ticket].is_escalated
    /\ NotificationsOf(notifications, last.ticket, "trigger_activated") = <<>>

\* The active rules other than notify rules that match the text of inst.
MatchingRules(inst) ==
    {r \in ActiveRules(rules) : rules[r].action # "notify" /\ RuleMatches(rules[r], inst)}

Position(order, r) == CHOOSE i \in 1..Len(order) : order[i] = r

\* C12: when the active rules matching a new ticket are an escalate rule and a
\* priority_high rule, the ticket is persisted escalated with escalated_by
\* null, with priority high when the escalate rule is evaluated first and
\* critical when the priority_high rule is evaluated first.
C12_EscalateAndPriorityHigh ==
    [][ (last'.view = "create_ticket" /\ nextId \in DOMAIN tickets') =>
            LET row == tickets'[nextId]
                matching == MatchingRules(row)
            IN  \A e, h \in matching :
                    ( /\ matching = {e, h}
                      /\ rules[e].action = "escalate"
                      /\ rules[h].action = "priority_high" )
                    => \A order \in Orders(ActiveRules(rules)) :
                            \/ /\ row.is_escalated
                               /\ row.escalated_by = NULL
                               /\ row.priority =
                                    IF Position(order, e) < Position(order, h)
                                    THEN "high" ELSE "critical"
                            \/ \A agents \in Orders(Agents) :
                                    ~CreateTicket(row.created_by, row.subject,
                                                  row.description, row.category,
                                                  row.severity, order, agents)
      ]_vars

\* A ticket the view created while exactly the escalate rule and the
\* priority_high rule matched it: escalated by the system, persisted high
\* although its text has a critical keyword.
C12_Witness ==
    /\ last.view = "create_ticket" /\ last.outcome = "ok"
    /\ last.ticket \in DOMAIN tickets
    /\ MatchingRules(tickets[last.ticket]) = {"r1", "r2"}
    /\ HasCritical(tickets[last.ticket])
    /\ tickets[last.ticket].is_escalated
    /\ tickets[last.ticket].escalated_by = NULL
    /\ tickets[last.ticket].priority = "high"

\* The keywords of rule that the text of inst contains, in the rule's order.
MatchedKeywords(rule, inst) ==
    SelectSeq(get_keyword_list(rule), LAMBDA kw : Contains(TextOf(inst), kw))

TriggerNotifications(k, u) ==
    SelectSeq(notifications,
              LAMBDA n : /\ n.ticket = k
                         /\ n.notification_type = "trigger_activated"
                         /\ n.recipient = u)

\* C13: for every created ticket and every active notify rule with a keyword
\* in the ticket's text, each user of the rule's notify list has exactly one
\* trigger_activated notification for the ticket, whose message embeds exactly
\* the keywords of the rule that matched; nobody else has one.
C13_MatchedKeywordsNotified ==
    \A k \in DOMAIN tickets : \A r \in ActiveRules(rules) :
        rules[r].action = "notify" =>
            \A u \in Users :
                LET sent == TriggerNotifications(k, u)
                IN  IF RuleMatches(rules[r], tickets[k]) /\ u \in rules[r].notify_users
                    THEN /\ Len(sent) = 1
                         /\ sent[1].message = Join(MatchedKeywords(rules[r], tickets[k]))
                    ELSE sent = <<>>

-----------------------------------------------------------------------------
(* The update specification: one or more tickets created by the view, then
   saved again by the update form, the assign and escalate requests, while the
   admin changes roles of users *)

UpdateStaff == {"a1", "m1"}

\* The update forms posted for a row: any status of open, resolved, closed, the
\* assignee kept or set to a2.
UpdateForms(row) ==
    { [status |-> s, priority |-> row.priority, severity |-> row.severity,
       assigned_to |-> a, category |-> row.category] :
        s \in {"open", "resolved", "closed"},
        a \in {row.assigned_to, "a2"} }

InitUpdate == Init

UCreate ==
    /\ now <= MaxSteps
    /\ nextId <= MaxCreates
    /\ \E category \in Categories \cup {NULL} :
            CreateTicket("c1", S_PrinterJam, D_NoRush, category, "medium", SomeOrder,
                         SeqOf(Agents))

UUpdate ==
    /\ now <= MaxSteps
    /\ \E k \in DOMAIN tickets : \E form \in UpdateForms(tickets[k]) :
            UpdateTicket("a1", k, form, SomeOrder)

UEscalate ==
    /\ now <= MaxSteps
    /\ \E u \in UpdateStaff, k \in DOMAIN tickets : EscalateTicket(u, k, SomeOrder)

UAssign ==
    /\ now <= MaxSteps
    /\ \E k \in DOMAIN tickets, agent_id \in {NULL, "a1"} :
            AssignTicket("m1", k, agent_id, SomeOrder)

USetRole ==
    /\ now <= MaxSteps
    /\ \E change \in {<<"a2", "admin">>, <<"m1", "agent">>} :
            SetUserRole("m1", change[1], change[2])

NextUpdate ==
    \/ UCreate
    \/ UUpdate
    \/ UEscalate
    \/ UAssign
    \/ USetRole

SpecUpdate == InitUpdate /\ [][NextUpdate]_vars

\* The records a step appends to the history and notification tables.
NewHistory(k, action_types) ==
    SelectSeq(SubSeq(history', Len(history) + 1, Len(history')),
              LAMBDA h : h.ticket = k /\ h.action_type \in action_types)

NewNotifications(k, notification_type) ==
    SelectSeq(SubSeq(notifications', Len(notifications) + 1, Len(notifications')),
              LAMBDA n : n.ticket = k /\ n.notification_type = notification_type)

\* C14: resolved_at (closed_at) is set by the first save that leaves the ticket
\* resolved (closed), to the time of that save, and never changes afterwards,
\* also when the ticket is reopened and resolved or closed again; a row is
\* resolved (closed) only with its stamp set, and a stamp appears only in a
\* save that leaves the ticket in that status.
C14_StampsSetOnce ==
    [][ \A k \in DOMAIN tickets' :
            LET new == tickets'[k]
                isOld == k \in DOMAIN tickets
            IN  /\ new.status = "resolved" => new.resolved_at # NoTime
                /\ new.status = "closed" => new.closed_at # NoTime
                /\ (isOld /\ tickets[k].resolved_at # NoTime)
                        => new.resolved_at = tickets[k].resolved_at
                /\ (isOld /\ tickets[k].closed_at # NoTime)
                        => new.closed_at = tickets[k].closed_at
                /\ (new.resolved_at # NoTime /\ (~isOld \/ tickets[k].resolved_at = NoTime))
                        => new.status = "resolved" /\ new.resolved_at = Now
                /\ (new.closed_at # NoTime /\ (~isOld \/ tickets[k].closed_at = NoTime))
                        => new.status = "closed" /\ new.closed_at = Now
      ]_vars

\* A ticket resolved, moved to another status and resolved again: resolved_at
\* is the time of the first of its status changes.
C14_Witness ==
    \E k \in DOMAIN tickets :
        LET changes == HistoryOf(history, k, "status_changed")
        IN  /\ Len(changes) >= 3
            /\ changes[1].new_value = <<"resolved">>
            /\ changes[Len(changes)].new_value = <<"resolved">>
            /\ tickets[k].status = "resolved"
            /\ tickets[k].resolved_at = changes[1].timestamp
            /\ tickets[k].resolved_at # changes[Len(changes)].timestamp

\* C15: a save of an existing ticket that changes its status appends exactly
\* one status_changed History record with the old and the new status and
\* exactly one status_changed Notification, to the ticket's creator; a save
\* that leaves the status unchanged appends neither.
C15_StatusChangeLogged ==
    [][ \A k \in DOMAIN tickets \cap DOMAIN tickets' :
            LET logged == NewHistory(k, {"status_changed"})
                sent == NewNotifications(k, "status_changed")
            IN  IF tickets'[k].status # tickets[k].status
                THEN /\ Len(logged) = 1
                     /\ logged[1].old_value = <<tickets[k].status>>
                     /\ logged[1].new_value = <<tickets'[k].status>>
                     /\ Len(sent) = 1
                     /\ sent[1].recipient = tickets[k].created_by
                ELSE logged = <<>> /\ sent = <<>>
      ]_vars

\* The update form moved a ticket from open to resolved.
C15_Witness ==
    /\ last.view = "update_ticket" /\ last.outcome = "ok"
    /\ last.ticket \in DOMAIN tickets
    /\ tickets[last.ticket].status = "resolved"
    /\ LET changes == HistoryOf(history, last.ticket, "status_changed")
       IN  /\ Len(changes) = 1
           /\ changes[1].old_value = <<"open">>
           /\ changes[1].new_value = <<"resolved">>
    /\ Len(NotificationsOf(notifications, last.ticket, "status_changed")) = 1

\* C16: a save of an existing ticket that changes the assignee to a user B
\* appends exactly one assignment History record, tagged 'assigned' when there
\* was no assignee and 'reassigned' when there was one, and exactly one
\* ticket_assigned Notification, to B; a save that clears the assignee or
\* leaves it unchanged appends neither.
C16_AssignmentLogged ==
    [][ \A k \in DOMAIN tickets \cap DOMAIN tickets' :
            LET logged == NewHistory(k, {"assigned", "reassigned"})
                sent == NewNotifications(k, "ticket_assigned")
                old == tickets[k].assigned_to
                new == tickets'[k].assigned_to
            IN  IF new # old /\ new # NULL
                THEN /\ Len(logged) = 1
                     /\ logged[1].action_type =
                            IF old = NULL THEN "assigned" ELSE "reassigned"
                     /\ logged[1].new_value = <<new>>
                     /\ Len(sent) = 1
                     /\ sent[1].recipient = new
                ELSE logged = <<>> /\ sent = <<>>
      ]_vars

\* A ticket assigned to a1 was reassigned to a2: one 'reassigned' record, and
\* the notification of that step went to a2.
C16_Witness ==
    \E k \in DOMAIN tickets :
        LET moved == HistoryOf(history, k, "reassigned")
            sent == NotificationsOf(notifications, k, "ticket_assigned")
        IN  /\ Len(moved) = 1
            /\ moved[1].old_value = <<"a1">>
            /\ moved[1].new_value = <<"a2">>
            /\ tickets[k].assigned_to = "a2"
            /\ Len(sent) = 2
            /\ sent[2].recipient = "a2"

\* C17: a save of an existing ticket that takes is_escalated from false to
\* true appends exactly one 'escalated' History record, whose actor is the
\* escalating user, and exactly one ticket_escalated Notification for each
\* user whose role is admin at that moment and for nobody else; any other save
\* appends neither.
C17_EscalationLogged ==
    [][ \A k \in DOMAIN tickets \cap DOMAIN tickets' :
            LET logged == NewHistory(k, {"escalated"})
                sent == NewNotifications(k, "ticket_escalated")
            IN  IF tickets'[k].is_escalated /\ ~tickets[k].is_escalated
                THEN /\ Len(logged) = 1
                     /\ logged[1].actor = last'.user
                     /\ logged[1].actor = tickets'[k].escalated_by
                     /\ \A u \in Users :
                            Cardinality({i \in 1..Len(sent) : sent[i].recipient = u})
                                = IF roles[u] = "admin" THEN 1 ELSE 0
                ELSE logged = <<>> /\ sent = <<>>
      ]_vars

\* An agent escalated a ticket after a2 had become an admin and m1 an agent:
\* a2 alone was notified.
C17_Witness ==
    /\ last.view = "escalate_ticket" /\ last.user = "a1"
    /\ last.ticket \in DOMAIN tickets
    /\ roles["a2"] = "admin" /\ roles["m1"] = "agent"
    /\ LET sent == NotificationsOf(notifications, last.ticket, "ticket_escalated")
       IN  Len(sent) = 1 /\ sent[1].recipient = "a2"
    /\ LET logged == HistoryOf(history, last.ticket, "escalated")
       IN  Len(logged) = 1 /\ logged[1].actor = "a1"

-----------------------------------------------------------------------------
(* The comment specification: tickets created by a client or an agent,
   assigned, and commented by their creator, other clients and the staff *)

\* "on it"
C_OnIt == <<"o","n"," ","i","t">>

CommentAuthors == {"c1", "c2", "a1", "m1"}

KCreate ==
    /\ now <= MaxSteps
    /\ nextId <= MaxCreates
    /\ \E u \in {"c1", "a1"}, category \in Categories \cup {NULL} :
            CreateTicket(u, S_PrinterJam, D_NoRush, category, "medium", SomeOrder,
                         SeqOf(Agents))

KAssign ==
    /\ now <= MaxSteps
    /\ \E k \in DOMAIN tickets, agent_id \in {NULL, "a1", "m1"} :
            AssignTicket("m1", k, agent_id, SomeOrder)

KComment ==
    /\ now <= MaxSteps
    /\ \E u \in CommentAuthors, k \in DOMAIN tickets, content \in {C_OnIt, <<>>},
          is_internal \in BOOLEAN :
            AddComment(u, k, content, is_internal)

NextComment ==
    \/ KCreate
    \/ KAssign
    \/ KComment

SpecComment == Init /\ [][NextComment]_vars

\* C18: a comment request that is accepted appends exactly one History
\* record, comment_added with the author as actor, and notifies exactly the
\* ticket's creator and assignee other than the author, without the clients
\* among them when the comment is internal; a refused request appends nothing.
C18_CommentNotifies ==
    [][ last'.view = "add_comment" =>
            LET k == last'.ticket
                logged == SubSeq(history', Len(history) + 1, Len(history'))
                sent == SubSeq(notifications', Len(notifications) + 1, Len(notifications'))
                recipients == {sent[i].recipient : i \in 1..Len(sent)}
            IN  IF last'.outcome = "ok"
                THEN LET comment == comments'[Len(comments')]
                         concerned == {tickets[k].created_by, tickets[k].assigned_to}
                                        \ {NULL, last'.user}
                     IN  /\ Len(comments') = Len(comments) + 1
                         /\ comment.author = last'.user
                         /\ Len(logged) = 1
                         /\ logged[1].action_type = "comment_added"
                         /\ logged[1].ticket = k
                         /\ logged[1].actor = last'.user
                         /\ \A i \in 1..Len(sent) :
                                sent[i].ticket = k /\ sent[i].notification_type = "new_comment"
                         /\ recipients =
                                IF comment.is_internal
                                THEN {u \in concerned : roles[u] # "client"}
                                ELSE concerned
                ELSE logged = <<>> /\ sent = <<>> /\ comments' = comments
      ]_vars

\* The admin commented internally on an assigned ticket of a client: the
\* assignee alone was notified.
C18_Witness ==
    /\ last.view = "add_comment" /\ last.outcome = "ok" /\ last.user = "m1"
    /\ last.ticket \in DOMAIN tickets
    /\ Len(comments) = 1 /\ comments[1].is_internal
    /\ tickets[last.ticket].created_by = "c1"
    /\ tickets[last.ticket].assigned_to = "a1"
    /\ LET sent == NotificationsOf(notifications, last.ticket, "new_comment")
       IN  Len(sent) = 1 /\ sent[1].recipient = "a1"

-----------------------------------------------------------------------------
(* The assignment specification: tickets created with and without assignee
   and category while the roles of the users change *)

AssignCategories == Categories \cup {NULL}

AssignSupplied == {NULL, "a1"}

AssignStatuses == {"open", "resolved"}

\* The role changes the admin makes: in the end no user is an agent.
AssignRoleChanges == {<<"a1", "client">>, <<"a2", "admin">>}

ACreate ==
    /\ now <= MaxSteps
    /\ nextId <= MaxTickets
    /\ \E category \in AssignCategories, agents \in Orders(Agents) :
            CreateTicket("c1", S_PrinterJam, D_NoRush, category, "medium", SomeOrder,
                         agents)

AAdd ==
    /\ now <= MaxSteps
    /\ nextId <= MaxTickets
    /\ \E category \in Categories, status \in AssignStatuses,
          assignee \in AssignSupplied, agents \in Orders(Agents) :
            AddTicket("m1", S_PrinterJam, D_NoRush, category, "medium", status,
                      assignee, SomeOrder, agents)

ASetRole ==
    /\ now <= MaxSteps
    /\ \E change \in AssignRoleChanges : SetUserRole("m1", change[1], change[2])

NextAssign ==
    \/ ACreate
    \/ AAdd
    \/ ASetRole

SpecAssign == Init /\ [][NextAssign]_vars

\* The tickets of the table assigned to user a in status open or in_progress.
OpenAssigned(table, a) ==
    {k \in DOMAIN table :
        table[k].assigned_to = a /\ table[k].status \in {"open", "in_progress"}}

\* The assignee of the ticket a creation wrote, given the assignee and the
\* category that were supplied.
AssignedAsClaimed(supplied, category) ==
    LET row == tickets'[nextId]
    IN  IF supplied = NULL /\ category # NULL /\ (\E a \in Users : roles[a] = "agent")
        THEN /\ row.assigned_to \in Users
             /\ roles[row.assigned_to] = "agent"
             /\ \A a \in Users :
                    roles[a] = "agent" =>
                        Cardinality(OpenAssigned(tickets, row.assigned_to))
                            <= Cardinality(OpenAssigned(tickets, a))
        ELSE row.assigned_to = supplied

\* C19: a creation with no assignee and a category ends assigned to a user of
\* role agent with the fewest open or in_progress tickets among the agents;
\* with an assignee, without category or without agents the assignee stays as
\* supplied.
C19_AutoAssign ==
    [][ /\ \A category \in AssignCategories, agents \in Orders(Agents) :
              ( /\ CreateTicket("c1", S_PrinterJam, D_NoRush, category, "medium",
                                SomeOrder, agents)
                /\ last'.outcome = "ok" )
              => AssignedAsClaimed(NULL, category)
        /\ \A category \in Categories, status \in AssignStatuses,
              assignee \in AssignSupplied, agents \in Orders(Agents) :
              ( /\ AddTicket("m1", S_PrinterJam, D_NoRush, category, "medium", status,
                             assignee, SomeOrder, agents)
                /\ last'.outcome = "ok" )
              => AssignedAsClaimed(assignee, category)
      ]_vars

\* The second agent got the new ticket because the first one had an open
\* ticket, although the admin had none.
C19_Witness ==
    /\ last.view = "create_ticket" /\ last.outcome = "ok"
    /\ roles["a1"] = "agent" /\ roles["a2"] = "agent" /\ roles["m1"] = "admin"
    /\ tickets[last.ticket].category # NULL
    /\ tickets[last.ticket].assigned_to = "a2"
    /\ OpenAssigned(tickets, "a1") # {}
    /\ OpenAssigned(tickets, "a2") = {last.ticket}
    /\ OpenAssigned(tickets, "m1") = {}

\* A ticket with a category stayed unassigned because no user was an agent.
C19_WitnessNoAgent ==
    /\ last.view = "create_ticket" /\ last.outcome = "ok"
    /\ \A a \in Users : roles[a] # "agent"
    /\ tickets[last.ticket].category # NULL
    /\ tickets[last.ticket].assigned_to = NULL

-----------------------------------------------------------------------------
(* Creation without category, under the creation specification *)

\* C20: a ticket created through the form without category has a number, is
\* unassigned, and the request appended exactly one History record: created,
\* for that ticket, with the creator as actor.
C20_NoCategoryCreation ==
    [][ ( /\ last'.view = "create_ticket"
          /\ last'.outcome = "ok"
          /\ tickets'[last'.ticket].category = NULL )
        => LET k == last'.ticket
               row == tickets'[k]
               logged == SubSeq(history', Len(history) + 1, Len(history'))
           IN  /\ k \notin DOMAIN tickets
               /\ row.created_by = last'.user
               /\ row.ticket_number = FormatTicketNumber(YearOf(row.ticket_number),
                                                         SequenceOf(row.ticket_number))
               /\ row.ticket_number # <<>>
               /\ row.assigned_to = NULL
               /\ Len(logged) = 1
               /\ logged[1].ticket = k
               /\ logged[1].action_type = "created"
               /\ logged[1].actor = row.created_by
               /\ Len(HistoryOf(history', k, "created")) = 1
      ]_vars

\* A ticket without category was created while agents existed; a rule
\* escalated it, and its only History record is the creation.
C20_Witness ==
    /\ last.view = "create_ticket" /\ last.outcome = "ok"
    /\ tickets[last.ticket].category = NULL
    /\ tickets[last.ticket].assigned_to = NULL
    /\ tickets[last.ticket].is_escalated
    /\ Agents # {}
    /\ Len(history) = 1
    /\ history[1].action_type = "created" /\ history[1].ticket = last.ticket

-----------------------------------------------------------------------------
(* The audit specification: tickets are created, updated, assigned, escalated,
   commented and given attachments *)

F_Trace == [name |-> "trace.log", extension |-> "log"]

F_Tool == [name |-> "tool.exe", extension |-> "exe"]

AuditAuthors == {"c1", "a1"}

LCreate ==
    /\ now <= MaxRequests
    /\ nextId <= MaxCreates
    /\ \E category \in Categories \cup {NULL} :
            CreateTicket("c1", S_PrinterJam, D_NoRush, category, "medium", SomeOrder,
                         SeqOf(Agents))

LUpdate ==
    /\ now <= MaxRequests
    /\ \E k \in DOMAIN tickets :
        \E form \in UpdateForms(tickets[k]) : UpdateTicket("a1", k, form, SomeOrder)

LEscalate ==
    /\ now <= MaxRequests
    /\ \E k \in DOMAIN tickets : EscalateTicket("a1", k, SomeOrder)

LAssign ==
    /\ now <= MaxRequests
    /\ \E k \in DOMAIN tickets, agent_id \in {NULL, "a1"} :
            AssignTicket("m1", k, agent_id, SomeOrder)

LComment ==
    /\ now <= MaxRequests
    /\ \E u \in AuditAuthors, k \in DOMAIN tickets :
            AddComment(u, k, C_OnIt, FALSE)

LAttach ==
    /\ now <= MaxRequests
    /\ \E u \in AuditAuthors, k \in DOMAIN tickets :
            UploadAttachment(u, k, F_Trace, "log")

NextAudit ==
    \/ LCreate
    \/ LUpdate
    \/ LEscalate
    \/ LAssign
    \/ LComment
    \/ LAttach

SpecAudit == Init /\ [][NextAudit]_vars

\* C21: every step of creating, updating, assigning, escalating, commenting
\* and attaching leaves the History records written so far in the log, in
\* place and with all fields unchanged, and no ticket's number of History
\* records decreases.
C21_HistoryAppendOnly ==
    [][ /\ Len(history') >= Len(history)
        /\ SubSeq(history', 1, Len(history)) = history
        /\ \A k \in DOMAIN tickets :
                Len(SelectSeq(history', LAMBDA h : h.ticket = k))
                    >= Len(SelectSeq(history, LAMBDA h : h.ticket = k))
      ]_vars

\* A ticket with two comment_added records, the first at its place in the log
\* after the creation record.
C21_Witness ==
    \E k \in DOMAIN tickets :
        /\ Len(HistoryOf(history, k, "comment_added")) = 2
        /\ history[1].action_type = "created"
        /\ Len(history) >= 3

-----------------------------------------------------------------------------
(* The access specification: clients and an agent open, comment and attach
   to tickets of their own, of others, and to tickets that do not exist *)

AccessUsers == {"c1", "c2", "a1"}

\* The ids a request may name: the tickets, and an id no ticket has.
RequestedIds == DOMAIN tickets \cup {nextId}

GCreate ==
    /\ now <= MaxRequests
    /\ nextId <= MaxCreates
    /\ \E u \in {"c1", "a1"} :
            CreateTicket(u, S_PrinterJam, D_NoRush, "cat1", "medium", SomeOrder,
                         SeqOf(Agents))

GDetail ==
    /\ now <= MaxRequests
    /\ \E u \in AccessUsers, k \in RequestedIds : TicketDetail(u, k)

GComment ==
    /\ now <= MaxRequests
    /\ \E u \in AccessUsers, k \in RequestedIds, is_internal \in BOOLEAN :
            AddComment(u, k, C_OnIt, is_internal)

GAttach ==
    /\ now <= MaxRequests
    /\ \E u \in AccessUsers, k \in RequestedIds, file \in {F_Trace, F_Tool, NoFile} :
            UploadAttachment(u, k, file, "log")

NextAccess ==
    \/ GCreate
    \/ GDetail
    \/ GComment
    \/ GAttach

SpecAccess == Init /\ [][NextAccess]_vars

AccessViews == {"ticket_detail", "add_comment", "upload_attachment"}

\* The tables a refused request must leave as they were.
TablesUnchanged ==
    /\ tickets' = tickets
    /\ comments' = comments
    /\ attachments' = attachments
    /\ history' = history
    /\ notifications' = notifications

\* C22: ticket_detail, add_comment and upload_attachment answer a client who
\* names a ticket created by another user with 'forbidden' and a request for
\* a ticket that does not exist with 'not found', and in both cases write no
\* Comment, Attachment, History record or Notification.
C22_ForeignTicketForbidden ==
    [][ last'.view \in AccessViews =>
            LET u == last'.user
                k == last'.ticket
            IN  /\ k \notin DOMAIN tickets
                    => last'.outcome = "not_found" /\ TablesUnchanged
                /\ (k \in DOMAIN tickets /\ roles[u] = "client"
                        /\ tickets[k].created_by # u)
                    => last'.outcome = "forbidden" /\ TablesUnchanged
                /\ last'.outcome \in {"forbidden", "not_found"} => TablesUnchanged
      ]_vars

\* A client was refused the upload of a valid file to a ticket of another
\* client, after a comment of the ticket's creator was accepted.
C22_Witness ==
    /\ last.view = "upload_attachment" /\ last.outcome = "forbidden"
    /\ last.user = "c2"
    /\ last.ticket \in DOMAIN tickets
    /\ tickets[last.ticket].created_by = "c1"
    /\ Len(comments) = 1 /\ comments[1].author = "c1"
    /\ attachments = <<>>

-----------------------------------------------------------------------------
(* The interruption specification: creations and updates that complete, and
   creations and updates in which a write after the ticket's write raises *)

XCreate ==
    /\ now <= MaxRequests
    /\ nextId <= MaxCreates
    /\ \E category \in Categories \cup {NULL} :
            CreateTicket("c1", S_PrinterJam, D_NoRush, category, "medium", SomeOrder,
                         SeqOf(Agents))

XUpdate ==
    /\ now <= MaxRequests
    /\ \E k \in DOMAIN tickets :
        \E form \in UpdateForms(tickets[k]) : UpdateTicket("a1", k, form, SomeOrder)

XCreateInterrupted ==
    /\ now <= MaxRequests
    /\ nextId <= MaxCreates
    /\ \E category \in Categories \cup {NULL} :
            CreateTicketInterrupted("c1", S_PrinterJam, D_NoRush, category, "medium",
                                    SomeOrder)

XUpdateInterrupted ==
    /\ now <= MaxRequests
    /\ \E k \in DOMAIN tickets, at \in {"signal", "view"} :
        \E form \in UpdateForms(tickets[k]) :
            UpdateTicketInterrupted("a1", k, form, SomeOrder, at)

NextInterrupted ==
    \/ XCreate
    \/ XUpdate
    \/ XCreateInterrupted
    \/ XUpdateInterrupted

SpecInterrupted == Init /\ [][NextInterrupted]_vars

\* C23: the write of a ticket and the History and Notification writes derived
\* from it are persisted together: a step that persists a new ticket
\* persists its 'created' record, a step of the update view that persists a
\* changed status or a new assignee persists the record and the Notification
\* of that change, and a step of the update view that writes the ticket
\* persists the view's 'updated' record.
C23_DerivedWritesCommitTogether ==
    [][ \A k \in DOMAIN tickets' :
            IF k \notin DOMAIN tickets
            THEN Len(NewHistory(k, {"created"})) = 1
            ELSE /\ tickets'[k].status # tickets[k].status
                    => /\ Len(NewHistory(k, {"status_changed"})) = 1
                       /\ Len(NewNotifications(k, "status_changed")) = 1
                 /\ (tickets'[k].assigned_to # tickets[k].assigned_to
                        /\ tickets'[k].assigned_to # NULL)
                    => /\ Len(NewHistory(k, {"assigned", "reassigned"})) = 1
                       /\ Len(NewNotifications(k, "ticket_assigned")) = 1
                 /\ (tickets'[k] # tickets[k] /\ last'.view = "update_ticket")
                    => Len(NewHistory(k, {"updated"})) = 1
      ]_vars

-----------------------------------------------------------------------------
(* The staffing specification: tickets are created and auto-assigned, and
   the update form and assign_ticket name agents, the admin and clients *)

\* The users a request names as assignee.
StaffCandidates == {NULL, "a1", "m1", "c2"}

StaffForms(row) ==
    { [status |-> s, priority |-> row.priority, severity |-> row.severity,
       assigned_to |-> a, category |-> row.category] :
        s \in {row.status, "resolved"}, a \in StaffCandidates }

HCreate ==
    /\ now <= MaxRequests
    /\ nextId <= MaxTickets
    /\ \E category \in Categories \cup {NULL}, agents \in Orders(Agents) :
            CreateTicket("c1", S_PrinterJam, D_NoRush, category, "medium", SomeOrder,
                         agents)

HUpdate ==
    /\ now <= MaxRequests
    /\ \E k \in DOMAIN tickets :
        \E form \in StaffForms(tickets[k]) : UpdateTicket("a1", k, form, SomeOrder)

HAssign ==
    /\ now <= MaxRequests
    /\ \E k \in DOMAIN tickets, agent_id \in StaffCandidates :
            AssignTicket("m1", k, agent_id, SomeOrder)

NextStaff ==
    \/ HCreate
    \/ HUpdate
    \/ HAssign

SpecStaff == Init /\ [][NextStaff]_vars

\* C24: after every creation, update and assign request each ticket's
\* assignee is null or a user of role agent or admin, and an update form or
\* an assign request that names a client is rejected and leaves the tickets
\* as they were.
C24_AssigneeIsStaff ==
    [][ /\ \A k \in DOMAIN tickets' :
              \/ tickets'[k].assigned_to = NULL
              \/ /\ tickets'[k].assigned_to \in Users
                 /\ roles'[tickets'[k].assigned_to] \in {"agent", "admin"}
        /\ \A k \in DOMAIN tickets, c \in {x \in Users : roles[x] = "client"} :
              /\ AssignTicket("m1", k, c, SomeOrder)
                    => /\ last'.outcome = "not_found"
                       /\ tickets' = tickets
                       /\ history' = history
                       /\ notifications' = notifications
              /\ \A form \in StaffForms(tickets[k]) :
                    (form.assigned_to = c /\ UpdateTicket("a1", k, form, SomeOrder))
                    => /\ last'.outcome = "invalid"
                       /\ tickets' = tickets
                       /\ history' = history
                       /\ notifications' = notifications
      ]_vars

\* The admin, assigned to a ticket by an earlier request, is still its
\* assignee after assign_ticket refused to assign a client.
C24_Witness ==
    /\ last.view = "assign_ticket" /\ last.outcome = "not_found"
    /\ last.ticket \in DOMAIN tickets
    /\ tickets[last.ticket].assigned_to = "m1"
    /\ \E k \in DOMAIN tickets : tickets[k].assigned_to \in Agents

-----------------------------------------------------------------------------
(* The concurrent specification: requests on one ticket whose three parts
   interleave with those of other requests: the read of the ticket with the
   change made on the instance in memory, the read of the prior state by
   ticket_pre_save, and the UPDATE with ticket_post_save *)

EmptyDB == [tickets |-> <<>>, history |-> <<>>, notifications |-> <<>>, nextId |-> 1,
            issued |-> <<>>]

\* The tables after c1 created one ticket without category.
SeedDB ==
    save_new(EmptyDB, NewTicket(S_PrinterJam, D_NoRush, NULL, "medium", "c1"),
             RuleTable(LifeRules, LifeRules), SeqOf(LifeRules), <<>>,
             [tick |-> 0, year |-> 2024])

Waiting ==
    [pc |-> "start", view |-> "none", user |-> NULL,
     inst |-> NewTicket(<<>>, <<>>, NULL, "medium", NULL),
     original |-> NewTicket(<<>>, <<>>, NULL, "medium", NULL)]

InitConcurrent ==
    /\ tickets = SeedDB.tickets
    /\ roles = DefaultRoles
    /\ comments = <<>>
    /\ attachments = <<>>
    /\ history = SeedDB.history
    /\ notifications = SeedDB.notifications
    /\ rules = RuleTable(LifeRules, LifeRules)
    /\ now = 1
    /\ year = 2024
    /\ nextId = SeedDB.nextId
    /\ issued = SeedDB.issued
    /\ reqs = [p \in Procs |-> Waiting]
    /\ probe = NoProbe
    /\ last = NoRequest

\* get_object_or_404(Ticket, id=ticket_id), the change the view makes on the
\* instance, and the lines of Ticket.save before super().save().
Load(p, view, u, inst) ==
    /\ reqs[p].pc = "start"
    /\ is_agent_or_admin(u)
    /\ reqs' = [reqs EXCEPT ![p] =
                    [pc |-> "loaded", view |-> view, user |-> u,
                     inst |-> save_prepare(inst, tickets, rules, <<>>, Now),
                     original |-> Waiting.original]]
    /\ Tick
    /\ UNCHANGED <<roles, tickets, comments, attachments, history, notifications, rules,
                   nextId, issued, probe, last>>

\* views.escalate_ticket up to super().save()
LoadEscalate(p, u, k) ==
    /\ k \in DOMAIN tickets
    /\ Load(p, "escalate_ticket", u, escalate(tickets[k], u, Now))

\* views.assign_ticket up to super().save()
LoadAssign(p, u, k, agent_id) ==
    /\ k \in DOMAIN tickets
    /\ agent_id = NULL \/ (agent_id \in Users /\ is_agent_or_admin(agent_id))
    /\ Load(p, "assign_ticket", u, [tickets[k] EXCEPT !.assigned_to = agent_id])

\* views.update_ticket up to super().save()
LoadUpdate(p, u, k, form) ==
    /\ k \in DOMAIN tickets
    /\ FormValid(form)
    /\ Load(p, "update_ticket", u,
            [tickets[k] EXCEPT !.status = form.status,
                               !.priority = form.priority,
                               !.severity = form.severity,
                               !.assigned_to = form.assigned_to,
                               !.category = form.category])

\* signals.ticket_pre_save: instance._original = Ticket.objects.get(pk=instance.pk)
PreSave(p) ==
    /\ reqs[p].pc = "loaded"
    /\ reqs[p].inst.pk \in DOMAIN tickets
    /\ reqs' = [reqs EXCEPT ![p].pc = "presaved",
                            ![p].original = tickets[reqs[p].inst.pk]]
    /\ Tick
    /\ UNCHANGED <<roles, tickets, comments, attachments, history, notifications, rules,
                   nextId, issued, probe, last>>

\* The UPDATE and ticket_post_save, and for update_ticket the view's record.
FinishSave(p) ==
    /\ reqs[p].pc = "presaved"
    /\ LET r == reqs[p]
           written == write_existing(DB, r.inst, r.original, Now)
       IN  /\ IF r.view = "update_ticket"
              THEN Commit(AddHistory(written, r.inst.pk, "updated", r.user, <<>>, <<>>, Now))
              ELSE Commit(written)
           /\ Response(r.view, r.user, r.inst.pk, "ok")
    /\ reqs' = [reqs EXCEPT ![p].pc = "done"]
    /\ Tick
    /\ UNCHANGED <<roles, comments, attachments, rules, probe>>

ConcurrentStaff == {"a1", "m1"}

PEscalate == \E p \in Procs, u \in ConcurrentStaff, k \in DOMAIN tickets : LoadEscalate(p, u, k)

PAssign == \E p \in Procs, k \in DOMAIN tickets : LoadAssign(p, "m1", k, "a2")

PUpdate ==
    \E p \in Procs, k \in DOMAIN tickets :
        \E form \in { [status |-> "resolved", priority |-> q,
                       severity |-> tickets[k].severity,
                       assigned_to |-> tickets[k].assigned_to,
                       category |-> tickets[k].category] : q \in {tickets[k].priority, "low"} } :
            LoadUpdate(p, "a1", k, form)

PPreSave == \E p \in Procs : PreSave(p)

PFinish == \E p \in Procs : FinishSave(p)

NextConcurrent ==
    \/ PEscalate
    \/ PAssign
    \/ PUpdate
    \/ PPreSave
    \/ PFinish

SpecConcurrent == InitConcurrent /\ [][NextConcurrent]_vars

\* C25: when the requests on a ticket are escalate requests, a save never
\* changes escalated_by and escalated_at of a ticket that is persisted as
\* escalated, and the ticket has at most one 'escalated' History record and
\* at most one ticket_escalated Notification per admin.
C25_EscalationOnceConcurrently ==
    [][ (\A p \in Procs : reqs'[p].view \in {"none", "escalate_ticket"}) =>
            \A k \in DOMAIN tickets :
                /\ tickets[k].is_escalated
                    => /\ tickets'[k].is_escalated
                       /\ tickets'[k].escalated_by = tickets[k].escalated_by
                       /\ tickets'[k].escalated_at = tickets[k].escalated_at
                /\ Len(HistoryOf(history', k, "escalated")) <= 1
                /\ Len(NotificationsOf(notifications', k, "ticket_escalated"))
                        <= Cardinality(Admins)
      ]_vars


\* The fields of a row other than the assignee that assign_ticket has no part in.
OtherFields(row) ==
    <<row.status, row.priority, row.severity, row.category, row.is_escalated,
      row.escalated_by, row.escalated_at>>

\* C30: the save of an assign_ticket request leaves the ticket's status,
\* priority, severity, category and escalation fields as they were
\* immediately before the write and appends no status_changed or
\* priority_changed History record, whatever other requests did between the
\* request's read of the ticket and its save.
C30_AssignChangesOnlyAssignee ==
    [][ \A p \in Procs :
            (reqs[p].pc = "presaved" /\ reqs'[p].pc = "done"
                /\ reqs[p].view = "assign_ticket")
            => LET k == reqs[p].inst.pk
               IN  /\ OtherFields(tickets'[k]) = OtherFields(tickets[k])
                   /\ NewHistory(k, {"status_changed", "priority_changed"}) = <<>>
      ]_vars

-----------------------------------------------------------------------------
(* Auto-assignment's second save, under the creation specification *)

\* C26: a ticket created through the form with a category while agents exist
\* gets, after its 'created' record, exactly one 'assigned' record with null
\* actor and exactly one ticket_assigned Notification, to the agent it is
\* assigned to, and no status_changed, priority_changed or escalated record.
C26_AutoAssignLogged ==
    [][ ( /\ last'.view = "create_ticket"
          /\ last'.outcome = "ok"
          /\ tickets'[last'.ticket].category # NULL
          /\ Agents # {} )
        => LET k == last'.ticket
               row == tickets'[k]
               logged == SubSeq(history', Len(history) + 1, Len(history'))
               sent == NewNotifications(k, "ticket_assigned")
           IN  /\ row.assigned_to \in Agents
               /\ Len(logged) = 2
               /\ logged[1].ticket = k /\ logged[1].action_type = "created"
               /\ logged[2].ticket = k /\ logged[2].action_type = "assigned"
               /\ logged[2].actor = NULL
               /\ Len(sent) = 1
               /\ sent[1].recipient = row.assigned_to
               /\ NewHistory(k, {"status_changed", "priority_changed", "escalated",
                                 "reassigned"}) = <<>>
      ]_vars

\* A ticket with a category that a rule escalated at creation and that was
\* auto-assigned: its records are 'created' and 'assigned'.
C26_Witness ==
    /\ last.view = "create_ticket" /\ last.outcome = "ok"
    /\ tickets[last.ticket].category # NULL
    /\ tickets[last.ticket].is_escalated
    /\ tickets[last.ticket].priority = "critical"
    /\ tickets[last.ticket].assigned_to \in Agents
    /\ Len(history) = 2
    /\ history[2].action_type = "assigned" /\ history[2].actor = NULL
    /\ Len(NotificationsOf(notifications, last.ticket, "ticket_assigned")) = 1

-----------------------------------------------------------------------------
(* The escalation flag of a ticket a rule escalated at creation: creation,
   the three views that save a ticket, and the admin's change form *)

ECreate ==
    /\ now <= MaxRequests
    /\ nextId <= MaxCreates
    /\ \E description \in LifeDescriptions, category \in Categories \cup {NULL} :
            CreateTicket("c1", S_PrinterJam, description, category, "medium", SomeOrder,
                         SeqOf(Agents))

EUpdate ==
    /\ now <= MaxRequests
    /\ \E k \in DOMAIN tickets : \E form \in LifeForms(tickets[k]) :
            UpdateTicket("a1", k, form, SomeOrder)

EEscalate ==
    /\ now <= MaxRequests
    /\ \E u \in LifeStaff, k \in DOMAIN tickets : EscalateTicket(u, k, SomeOrder)

EAssign ==
    /\ now <= MaxRequests
    /\ \E k \in DOMAIN tickets, agent_id \in {NULL, "a2"} :
            AssignTicket("m1", k, agent_id, SomeOrder)

EChange ==
    /\ now <= MaxRequests
    /\ \E k \in DOMAIN tickets, is_escalated \in BOOLEAN :
            ChangeTicket("m1", k, is_escalated, tickets[k].escalated_by, SomeOrder)

NextFlag ==
    \/ ECreate
    \/ EUpdate
    \/ EEscalate
    \/ EAssign
    \/ EChange

SpecFlag == Init /\ [][NextFlag]_vars

\* An active escalate rule matches the text of the row. Under SpecFlag the rules
\* and the text of a ticket never change, so this holds of a row exactly when
\* the rules escalated it at its creation.
RuleEscalated(row) ==
    \E r \in ActiveRules(rules) :
        rules[r].action = "escalate" /\ RuleMatches(rules[r], row)

\* C27: a ticket a trigger rule escalated at creation is persisted with
\* is_escalated true and escalated_by null, and no step, neither the creation
\* nor a later save, writes an 'escalated' History record or a
\* ticket_escalated Notification for it.
C27_RuleEscalationNeverLogged ==
    [][ \A k \in DOMAIN tickets' :
            RuleEscalated(tickets'[k])
            => /\ k \notin DOMAIN tickets
                    => tickets'[k].is_escalated /\ tickets'[k].escalated_by = NULL
               /\ NewHistory(k, {"escalated"}) = <<>>
               /\ NewNotifications(k, "ticket_escalated") = <<>>
      ]_vars

-----------------------------------------------------------------------------
(* Trigger rules with a category scope: creation under rules scoped to the
   ticket's category, to another category, or unscoped *)

ScopeRules == {"r1", "r2", "r3"}

\* TriggerRule.category: null or a TicketCategory row.
RuleScopes == {NULL, "cat1", "cat2"}

ScopeDescriptions == {D_TotalOutage, D_NoRush}

\* Two of the orders in which the query returns the active rules.
ScopeOrders ==
    LET order == SeqOf(ActiveRules(rules))
    IN  {order, [i \in 1..Len(order) |-> order[Len(order) + 1 - i]]}

InitScope ==
    /\ tickets = <<>>
    /\ roles = DefaultRoles
    /\ comments = <<>>
    /\ attachments = <<>>
    /\ history = <<>>
    /\ notifications = <<>>
    /\ \E category \in RuleScopes :
            rules = [r \in ScopeRules |-> [RuleRows[r] EXCEPT !.category = category]]
    /\ now = 1
    /\ year = 2024
    /\ nextId = 1
    /\ issued = <<>>
    /\ reqs = <<>>
    /\ probe = NoProbe
    /\ last = NoRequest

SCreate ==
    /\ now <= MaxCalls
    /\ nextId <= MaxCreates
    /\ \E subject \in CreateSubjects, description \in ScopeDescriptions,
          category \in Categories \cup {NULL}, order \in ScopeOrders :
            CreateTicket("c1", subject, description, category, "medium", order,
                         SeqOf(Agents))

SSetCategory ==
    /\ now <= MaxCalls
    /\ \E r \in DOMAIN rules, category \in RuleScopes : SetRuleCategory("m1", r, category)

NextScope ==
    \/ SCreate
    \/ SSetCategory

SpecScope == InitScope /\ [][NextScope]_vars

\* The rule table with the category scope of every rule removed.
Unscoped(table) == [r \in DOMAIN table |-> [table[r] EXCEPT !.category = NULL]]

\* C28: rule evaluation ignores the category scope: whatever the scopes of the
\* active rules and the category of the new ticket, a creation leaves the
\* ticket, the history and the notifications exactly as the same creation
\* under the same rules without scopes.
C28_CategoryScopeIgnored ==
    [][ (last'.view = "create_ticket" /\ last'.outcome = "ok")
        => LET row == tickets'[nextId]
           IN  \A order \in ScopeOrders :
                \/ \E d \in {save_new(DB, NewTicket(row.subject, row.description,
                                                    row.category, "medium", "c1"),
                                      Unscoped(rules), order, SeqOf(Agents), Now)} :
                        /\ tickets' = d.tickets
                        /\ history' = d.history
                        /\ notifications' = d.notifications
                \/ ~CreateTicket("c1", row.subject, row.description, row.category,
                                 "medium", order, SeqOf(Agents))
      ]_vars

\* A ticket without category, escalated by a rule scoped to cat1 and announced
\* by a notify rule scoped to cat2; and a ticket of cat1 whose priority a rule
\* scoped to cat2 set.
C28_Witness ==
    /\ last.view = "create_ticket" /\ last.outcome = "ok"
    /\ rules["r1"].category = "cat1"
    /\ rules["r2"].category = "cat2"
    /\ rules["r3"].category = "cat2"
    /\ LET row == tickets[last.ticket]
       IN  /\ row.category = NULL
           /\ row.is_escalated /\ row.escalated_by = NULL
           /\ row.priority = "critical"
           /\ Len(NotificationsOf(notifications, last.ticket, "trigger_activated")) = 2

-----------------------------------------------------------------------------
(* Recipients of a comment or an upload on a ticket whose creator may also be
   its assignee *)

RecipientCreators == {"c1", "a1"}

RecipientAuthors == {"c1", "m1"}

NCreate ==
    /\ now <= MaxRequests
    /\ nextId <= MaxCreates
    /\ \E u \in RecipientCreators :
            CreateTicket(u, S_PrinterJam, D_NoRush, NULL, "medium", SomeOrder,
                         SeqOf(Agents))

NAssign ==
    /\ now <= MaxRequests
    /\ \E k \in DOMAIN tickets, agent_id \in {NULL, "a1", "a2"} :
            AssignTicket("m1", k, agent_id, SomeOrder)

NComment ==
    /\ now <= MaxRequests
    /\ \E u \in RecipientAuthors, k \in DOMAIN tickets, is_internal \in BOOLEAN :
            AddComment(u, k, C_OnIt, is_internal)

NAttach ==
    /\ now <= MaxRequests
    /\ \E u \in RecipientAuthors, k \in DOMAIN tickets :
            UploadAttachment(u, k, F_Trace, "log")

NextRecipient ==
    \/ NCreate
    \/ NAssign
    \/ NComment
    \/ NAttach

SpecRecipient == Init /\ [][NextRecipient]_vars

\* C29: a comment creation or an attachment upload creates at most one
\* Notification per recipient, whoever the creator, the assignee and the
\* author or uploader are.
C29_OneNotificationPerRecipient ==
    [][ last'.view \in {"add_comment", "upload_attachment"}
        => LET sent == SubSeq(notifications', Len(notifications) + 1,
                              Len(notifications'))
           IN  \A i, j \in 1..Len(sent) :
                    sent[i].recipient = sent[j].recipient => i = j
      ]_vars

====
